---------------------------- MODULE Spec2Model ----------------------------
(***************************************************************************)
(* Market-structure snapshot engine of binance-mcp-server                  *)
(* (src/src/tools/market-data.ts, tools get_market_snapshot and            *)
(* get_market_snapshots).                                                  *)
(*                                                                         *)
(* Prices and volumes are small integers; every derived quantity (ATR,     *)
(* VWAP, liquidity levels, scores) is an exact rational <<num, den>> with  *)
(* den > 0 in lowest terms.  Number.toFixed(3) is modelled as rounding to  *)
(* the nearest thousandth (half up); binary floating-point error of the    *)
(* JavaScript doubles is outside the model.  Array indices are kept        *)
(* 0-based as in the source; At(s, i) reads element i of a sequence.       *)
(* Time is counted in minutes.                                             *)
(***************************************************************************)
EXTENDS Integers, Sequences, FiniteSets, TLC

(***************************************************************************)
(* Exact rational arithmetic                                               *)
(***************************************************************************)
Abs(x) == IF x < 0 THEN -x ELSE x

RECURSIVE Gcd(_, _)
Gcd(a, b) == IF b = 0 THEN a ELSE Gcd(b, a % b)

Norm(n, d) ==
    LET g == Gcd(Abs(n), Abs(d))
        s == IF d < 0 THEN -1 ELSE 1
    IN  IF n = 0 THEN <<0, 1>> ELSE <<(s * n) \div g, (s * d) \div g>>

R(i) == <<i, 1>>
Frac(n, d) == Norm(n, d)
RAdd(a, b) == Norm(a[1] * b[2] + b[1] * a[2], a[2] * b[2])
RSub(a, b) == Norm(a[1] * b[2] - b[1] * a[2], a[2] * b[2])
RMul(a, b) ==
    \* cross-reduce first so that a product with the 1e-8 floor stays small
    LET x == Norm(a[1], b[2])
        y == Norm(b[1], a[2])
    IN  Norm(x[1] * y[1], x[2] * y[2])
RInv(a) == Norm(a[2], a[1])
RDiv(a, b) == RMul(a, RInv(b))
RAbs(a) == <<Abs(a[1]), a[2]>>
RFloor(a) == a[1] \div a[2]

\* a < b, by comparing integer parts and then the reciprocals of the
\* fractional parts: no product is formed, so a comparison against the
\* 1e-8 floor cannot overflow.
RECURSIVE RLt(_, _)
RLt(a, b) ==
    LET fa == RFloor(a)
        fb == RFloor(b)
        ra == <<a[1] - fa * a[2], a[2]>>
        rb == <<b[1] - fb * b[2], b[2]>>
    IN  IF fa # fb THEN fa < fb
        ELSE IF rb[1] = 0 THEN FALSE
        ELSE IF ra[1] = 0 THEN TRUE
        ELSE RLt(<<rb[2], rb[1]>>, <<ra[2], ra[1]>>)
RLe(a, b) == ~RLt(b, a)
RGt(a, b) == RLt(b, a)
RGe(a, b) == ~RLt(a, b)
RMin(a, b) == IF RLt(b, a) THEN b ELSE a
RMax(a, b) == IF RLt(a, b) THEN b ELSE a

Min2(a, b) == IF b < a THEN b ELSE a
Max2(a, b) == IF a < b THEN b ELSE a

\* Number(x.toFixed(3)): the nearest multiple of 1/1000, halves rounded up
Round3(a) == Frac((2000 * a[1] + a[2]) \div (2 * a[2]), 1000)

\* the optional value null of a rational-valued field
Null == <<>>

At(s, i) == s[i + 1]

(***************************************************************************)
(* Static tables of get_market_snapshot                                    *)
(***************************************************************************)
\* z.enum of GetMarketSnapshotSchema / GetMarketSnapshotsSchema
Intervals ==
    {"1m", "3m", "5m", "15m", "30m", "1h", "2h", "4h", "6h", "8h", "12h",
     "1d", "2d", "4d", "1w", "2w"}

\* faulty variant: the requested interval is passed on as it is
normalizeIntervalIdentity(iv) == iv

normalizeInterval(iv) ==
    IF iv = "2d" THEN "1d" ELSE IF iv = "4d" THEN "1d"
    ELSE IF iv = "2w" THEN "1w" ELSE iv

\* intervalMsMap, in minutes
intervalMsMap ==
    [iv \in Intervals |->
        CASE iv = "1m" -> 1 [] iv = "3m" -> 3 [] iv = "5m" -> 5
          [] iv = "15m" -> 15 [] iv = "30m" -> 30 [] iv = "1h" -> 60
          [] iv = "2h" -> 120 [] iv = "4h" -> 240 [] iv = "6h" -> 360
          [] iv = "8h" -> 480 [] iv = "12h" -> 720 [] iv = "1d" -> 1440
          [] iv = "2d" -> 2880 [] iv = "4d" -> 5760 [] iv = "1w" -> 10080
          [] iv = "2w" -> 20160]

\* ltfMap[interval] ?? null ("none": the interval has no lower timeframe)
ltfMap ==
    [iv \in Intervals |->
        CASE iv = "2w" -> "1d" [] iv = "1w" -> "4h" [] iv = "4d" -> "1h"
          [] iv = "2d" -> "30m" [] iv = "1d" -> "1h" [] iv = "12h" -> "1h"
          [] iv = "8h" -> "30m" [] iv = "6h" -> "30m" [] iv = "4h" -> "30m"
          [] iv = "2h" -> "15m" [] iv = "1h" -> "15m" [] iv = "30m" -> "5m"
          [] iv = "15m" -> "5m" [] iv = "5m" -> "1m"
          [] OTHER -> "none"]

\* tfWeightMap[interval] ?? 1.0
tfWeightMap ==
    [iv \in Intervals |->
        CASE iv = "1m" -> Frac(1, 2) [] iv = "5m" -> Frac(7, 10)
          [] iv = "15m" -> Frac(4, 5) [] iv = "30m" -> Frac(9, 10)
          [] iv = "1h" -> R(1) [] iv = "4h" -> Frac(11, 10)
          [] iv = "1d" -> Frac(6, 5) [] iv = "2d" -> Frac(5, 4)
          [] iv = "4d" -> Frac(13, 10) [] iv = "1w" -> Frac(27, 20)
          [] iv = "2w" -> Frac(7, 5)
          [] OTHER -> R(1)]

\* the 1e-8 floor of Math.max(1e-8, ...)
Epsilon == <<1, 100000000>>

(***************************************************************************)
(* Structure detector                                                      *)
(***************************************************************************)
MaxOf(S) == CHOOSE x \in S : \A y \in S : y <= x
MinOf(S) == CHOOSE x \in S : \A y \in S : x <= y

\* faulty variant: a candle that only equals its neighbours counts as a pivot
RECURSIVE PivotsNonStrictFrom(_, _)
PivotsNonStrictFrom(c, i) ==
    IF i > Len(c) - 2 THEN <<>>
    ELSE (IF At(c, i).high >= At(c, i - 1).high /\ At(c, i).high >= At(c, i + 1).high
            THEN <<[idx |-> i, type |-> "H", price |-> At(c, i).high]>> ELSE <<>>)
         \o (IF At(c, i).low <= At(c, i - 1).low /\ At(c, i).low <= At(c, i + 1).low
            THEN <<[idx |-> i, type |-> "L", price |-> At(c, i).low]>> ELSE <<>>)
         \o PivotsNonStrictFrom(c, i + 1)

PivotsNonStrict(c) == PivotsNonStrictFrom(c, 1)

\* the candle indices the pivot loop reads: i - 1, i, i + 1 for i = 1 .. n - 2
PivotReads(c) == UNION {{i - 1, i, i + 1} : i \in 1 .. Len(c) - 2}

RECURSIVE PivotsFrom(_, _)
PivotsFrom(c, i) ==
    IF i > Len(c) - 2 THEN <<>>
    ELSE (IF At(c, i).high > At(c, i - 1).high /\ At(c, i).high > At(c, i + 1).high
            THEN <<[idx |-> i, type |-> "H", price |-> At(c, i).high]>> ELSE <<>>)
         \o (IF At(c, i).low < At(c, i - 1).low /\ At(c, i).low < At(c, i + 1).low
            THEN <<[idx |-> i, type |-> "L", price |-> At(c, i).low]>> ELSE <<>>)
         \o PivotsFrom(c, i + 1)

Pivots(c) == PivotsFrom(c, 1)

\* Math.max(...[]) is -Infinity and Math.min(...[]) is Infinity: with a
\* single candle the last close is above the (empty) previous high.
Bos(c) ==
    LET n == Len(c)
        lastClose == At(c, n - 1).close
    IN  IF n = 1 THEN "up"
        ELSE LET prevHigh == MaxOf({At(c, i).high : i \in 0 .. n - 2})
                 prevLow == MinOf({At(c, i).low : i \in 0 .. n - 2})
             IN  IF lastClose > prevHigh THEN "up"
                 ELSE IF lastClose < prevLow THEN "down" ELSE "none"

RECURSIVE FvgFrom(_, _)
FvgFrom(c, i) ==
    IF i > Len(c) - 1 THEN <<>>
    ELSE (IF At(c, i).low > At(c, i - 2).high
            THEN <<[type |-> "bull", startIdx |-> i - 2]>> ELSE <<>>)
         \o (IF At(c, i).high < At(c, i - 2).low
            THEN <<[type |-> "bear", startIdx |-> i - 2]>> ELSE <<>>)
         \o FvgFrom(c, i + 1)

Fvg(c, fvgLookback) == FvgFrom(c, Max2(2, Len(c) - (fvgLookback + 2)))

TrueRange(c, i) ==
    LET hl == At(c, i).high - At(c, i).low
        hc == IF i > 0 THEN Abs(At(c, i).high - At(c, i - 1).close) ELSE 0
        lc == IF i > 0 THEN Abs(At(c, i).low - At(c, i - 1).close) ELSE 0
    IN  Max2(hl, Max2(hc, lc))

RECURSIVE SumFirst(_, _)
SumFirst(arr, k) == IF k = 0 THEN 0 ELSE arr[k] + SumFirst(arr, k - 1)

\* val after the smoothing loop has consumed arr[n .. i] (0-based)
RECURSIVE RmaUpTo(_, _, _)
RmaUpTo(arr, n, i) ==
    IF i < n THEN Frac(SumFirst(arr, n), n)
    ELSE RAdd(RMul(Frac(1, n), R(At(arr, i))),
              RMul(Frac(n - 1, n), RmaUpTo(arr, n, i - 1)))

\* Wilder's running average of an integer array; Null when too short
rma(arr, n) == IF Len(arr) < n THEN Null ELSE RmaUpTo(arr, n, Len(arr) - 1)

Atr(c, atrPeriod) == rma([i \in 1 .. Len(c) |-> TrueRange(c, i - 1)], atrPeriod)

\* atr ? atr * 0.1 : lastClose * 0.001   (a zero ATR is falsy)
Tolerance(c, atr) ==
    IF atr # Null /\ atr[1] # 0 THEN RMul(atr, Frac(1, 10))
    ELSE RMul(R(At(c, Len(c) - 1).close), Frac(1, 1000))

\* atr ?? Math.max(1e-8, high - low of the last candle)
BaseATR(c, atr) ==
    IF atr # Null THEN atr
    ELSE RMax(Epsilon, R(At(c, Len(c) - 1).high - At(c, Len(c) - 1).low))

(***************************************************************************)
(* Trend, moving averages and RSI                                          *)
(***************************************************************************)
Closes(c) == [i \in 1 .. Len(c) |-> c[i].close]

RECURSIVE SumRange(_, _, _)
SumRange(arr, lo, hi) == IF lo > hi THEN 0 ELSE arr[hi] + SumRange(arr, lo, hi - 1)

\* the mean of the last n elements; Null when the array is too short
sma(arr, n) ==
    IF Len(arr) < n THEN Null ELSE Frac(SumRange(arr, Len(arr) - n + 1, Len(arr)), n)

\* sma50 && sma200 ? (sma50 > sma200 ? 'up' : 'down') : null   (0 is falsy)
Trend(sma50, sma200) ==
    IF sma50 # Null /\ sma50[1] # 0 /\ sma200 # Null /\ sma200[1] # 0
    THEN (IF RGt(sma50, sma200) THEN "up" ELSE "down")
    ELSE "none"

\* the loop for (i = 1; i < arr.length; i++) ema = arr[i] * k + ema * (1 - k)
\* with k = 2 / (n + 1), entered at index i with the running value ema.  The
\* test on the denominator (always positive) has the running value computed
\* before the next iteration is entered.
RECURSIVE EmaLoop(_, _, _, _)
EmaLoop(arr, n, i, ema) ==
    IF ema[2] > 0 /\ i >= Len(arr) THEN ema
    ELSE EmaLoop(arr, n, i + 1,
                 RAdd(RMul(R(At(arr, i)), Frac(2, n + 1)),
                      RMul(ema, RSub(R(1), Frac(2, n + 1)))))

calcEMA(arr, n) == IF Len(arr) < n THEN Null ELSE EmaLoop(arr, n, 1, R(At(arr, 0)))

\* emaValues, in the order of the emas list
EmaValues(closes, emas) == [k \in 1 .. Len(emas) |-> calcEMA(closes, emas[k])]

PeriodRSI == 14

Deltas(closes) == [i \in 1 .. Len(closes) - 1 |-> closes[i + 1] - closes[i]]
Gains(deltas) == [i \in 1 .. Len(deltas) |-> IF deltas[i] > 0 THEN deltas[i] ELSE 0]
Losses(deltas) == [i \in 1 .. Len(deltas) |-> IF deltas[i] < 0 THEN -deltas[i] ELSE 0]

AvgGain(c) == rma(Gains(Deltas(Closes(c))), PeriodRSI)
AvgLoss(c) == rma(Losses(Deltas(Closes(c))), PeriodRSI)

\* the branch on avgLoss === 0 comes first
RsiOf(avgGain, avgLoss) ==
    IF avgGain = Null \/ avgLoss = Null THEN Null
    ELSE IF avgLoss[1] = 0 THEN R(100)
    ELSE IF avgGain[1] = 0 THEN R(0)
    ELSE RSub(R(100), RDiv(R(100), RAdd(R(1), RDiv(avgGain, avgLoss))))

Rsi(c) == RsiOf(AvgGain(c), AvgLoss(c))

(***************************************************************************)
(* Liquidity clusterer                                                     *)
(***************************************************************************)
\* points.slice().sort((a, b) => a.price - b.price): stable insertion
RECURSIVE InsertByPrice(_, _)
InsertByPrice(sorted, pt) ==
    IF sorted = <<>> THEN <<pt>>
    ELSE IF Head(sorted).price <= pt.price
         THEN <<Head(sorted)>> \o InsertByPrice(Tail(sorted), pt)
         ELSE <<pt>> \o sorted

RECURSIVE SortByPrice(_)
SortByPrice(points) ==
    IF points = <<>> THEN <<>>
    ELSE InsertByPrice(SortByPrice(SubSeq(points, 1, Len(points) - 1)),
                       points[Len(points)])

\* the clusters after the first k sorted points were merged in
RECURSIVE ClustersUpTo(_, _, _)
ClustersUpTo(sorted, tolerance, k) ==
    IF k = 0 THEN <<>>
    ELSE LET cl == ClustersUpTo(sorted, tolerance, k - 1)
             pt == sorted[k]
             last == cl[Len(cl)]
         IN  IF cl # <<>> /\ RLe(RAbs(RSub(R(pt.price), last.level)), tolerance)
             THEN [cl EXCEPT ![Len(cl)] =
                     [level |-> RDiv(RAdd(RMul(last.level, R(last.count)), R(pt.price)),
                                     R(last.count + 1)),
                      count |-> last.count + 1,
                      indices |-> Append(last.indices, pt.idx)]]
             ELSE Append(cl, [level |-> R(pt.price), count |-> 1, indices |-> <<pt.idx>>])

clusterLevels(points, tolerance) ==
    LET sorted == SortByPrice(points)
    IN  SelectSeq(ClustersUpTo(sorted, tolerance, Len(sorted)), LAMBDA cl : cl.count >= 2)

IsHigh(p) == p.type = "H"
IsLow(p) == p.type = "L"

LiquidityZones(pivots, tolerance) ==
    [highs |-> clusterLevels(SelectSeq(pivots, IsHigh), tolerance),
     lows |-> clusterLevels(SelectSeq(pivots, IsLow), tolerance)]

(***************************************************************************)
(* Order block engine                                                      *)
(***************************************************************************)
Bearish(k) == k.open > k.close
Bullish(k) == k.open < k.close

Block(c, type, i) ==
    [type |-> type, idx |-> i, open |-> At(c, i).open, high |-> At(c, i).high,
     low |-> At(c, i).low, close |-> At(c, i).close]

\* the first index met scanning from hi down to lo whose candle has a
\* bearish (bull block) or bullish (bear block) body; -1 when none
ScanBack(c, type, hi, lo) ==
    LET hits == {i \in lo .. hi :
                    IF type = "bull" THEN Bearish(At(c, i)) ELSE Bullish(At(c, i))}
    IN  IF hits = {} THEN -1 ELSE MaxOf(hits)

BlockAt(c, type, i) == IF i = -1 THEN <<>> ELSE <<Block(c, type, i)>>

\* faulty variant: the scan starts at the candle just before the last one
BosBlocksLate(c, bos) ==
    LET n == Len(c)
        lookbackOB == Min2(n - 1, 60)
    IN  IF bos = "up" THEN BlockAt(c, "bull", ScanBack(c, "bull", n - 2, n - lookbackOB))
        ELSE IF bos = "down"
             THEN BlockAt(c, "bear", ScanBack(c, "bear", n - 2, n - lookbackOB))
             ELSE <<>>

\* pass 1: BOS context.  brokeHigh / brokeLow repeat the BOS test, so the
\* momentum test never decides.
BosBlocks(c, bos) ==
    LET n == Len(c)
        lookbackOB == Min2(n - 1, 60)
    IN  IF bos = "up" THEN BlockAt(c, "bull", ScanBack(c, "bull", n - 3, n - lookbackOB))
        ELSE IF bos = "down"
             THEN BlockAt(c, "bear", ScanBack(c, "bear", n - 3, n - lookbackOB))
             ELSE <<>>

\* pass 2: displacement over windowN closes against 0.8 * (ATR or last range)
DisplacementBlocks(c, atr) ==
    LET n == Len(c)
        lookbackOB == Min2(n - 1, 60)
        windowN == Min2(5, n - 1)
        displacementUp == At(c, n - 1).close - At(c, n - 1 - windowN).close
        displacementDown == At(c, n - 1 - windowN).close - At(c, n - 1).close
        threshold == RMul(BaseATR(c, atr), Frac(4, 5))
        lo == Max2(1, n - 1 - lookbackOB)
    IN  IF RGt(R(displacementUp), threshold)
        THEN BlockAt(c, "bull", ScanBack(c, "bull", n - 2, lo))
        ELSE IF RGt(R(displacementDown), threshold)
             THEN BlockAt(c, "bear", ScanBack(c, "bear", n - 2, lo))
             ELSE <<>>

\* [...pivots].reverse().find(p => p.type === t); <<>> when there is none
LastPivot(pivots, t) ==
    LET sel == SelectSeq(pivots, LAMBDA p : p.type = t)
    IN  IF sel = <<>> THEN <<>> ELSE <<sel[Len(sel)]>>

\* faulty variant: the candle next to the pivot, bear from a High and bull
\* from a Low
PivotBlocksAdjacent(c, pivots) ==
    LET lastH == LastPivot(pivots, "H")
        lastL == LastPivot(pivots, "L")
    IN  IF lastH # <<>> THEN BlockAt(c, "bear", lastH[1].idx - 1)
        ELSE IF lastL # <<>> THEN BlockAt(c, "bull", lastL[1].idx - 1)
        ELSE <<>>

\* pass 3: the candle before the last High pivot (pushed as a bull block),
\* else the candle before the last Low pivot (pushed as a bear block)
PivotBlocks(c, pivots) ==
    LET lastH == LastPivot(pivots, "H")
        lastL == LastPivot(pivots, "L")
        fromH == IF lastH = <<>> THEN <<>>
                 ELSE BlockAt(c, "bull",
                        ScanBack(c, "bull", lastH[1].idx - 1, Max2(0, lastH[1].idx - 10)))
    IN  IF fromH # <<>> THEN fromH
        ELSE IF lastL = <<>> THEN <<>>
        ELSE BlockAt(c, "bear",
                ScanBack(c, "bear", lastL[1].idx - 1, Max2(0, lastL[1].idx - 10)))

\* faulty variant: every pass runs and pushes what it finds
OrderBlocksAllPasses(c, bos, pivots, atr) ==
    BosBlocks(c, bos) \o DisplacementBlocks(c, atr) \o PivotBlocks(c, pivots)

OrderBlocks(c, bos, pivots, atr) ==
    LET p1 == BosBlocks(c, bos)
        p2 == DisplacementBlocks(c, atr)
    IN  IF p1 # <<>> THEN p1
        ELSE IF p2 # <<>> THEN p2
        ELSE PivotBlocks(c, pivots)

(***************************************************************************)
(* Hidden order block tracker                                              *)
(***************************************************************************)
bodyLow(k) == Min2(k.open, k.close)
bodyHigh(k) == Max2(k.open, k.close)

\* faulty variant: the last candle that meets the body instead of the first
RevisitIdxLast(c, ob) ==
    LET hits == {i \in ob.idx + 1 .. Len(c) - 1 :
                    At(c, i).high >= bodyLow(ob) /\ At(c, i).low <= bodyHigh(ob)}
    IN  IF hits = {} THEN -1 ELSE MaxOf(hits)

\* first index after the block whose range meets the block body; -1 if none
RevisitIdx(c, ob) ==
    LET hits == {i \in ob.idx + 1 .. Len(c) - 1 :
                    At(c, i).high >= bodyLow(ob) /\ At(c, i).low <= bodyHigh(ob)}
    IN  IF hits = {} THEN -1 ELSE MinOf(hits)

\* the revisit candle closes through the body in the adverse direction
RevisitInvalidated(c, ob, rv) ==
    IF ob.type = "bull" THEN At(c, rv).close < bodyLow(ob)
    ELSE At(c, rv).close > bodyHigh(ob)

WickThrough(c, ob, rv) ==
    IF ob.type = "bull"
    THEN At(c, rv).low < bodyLow(ob) /\ At(c, rv).close >= bodyLow(ob)
    ELSE At(c, rv).high > bodyHigh(ob) /\ At(c, rv).close <= bodyHigh(ob)

PartialClose(c, ob, rv) ==
    At(c, rv).close >= bodyLow(ob) /\ At(c, rv).close <= bodyHigh(ob)

\* faulty variant: every revisited block is pushed, whatever its revisit close
HiddenOfAnyRevisit(c, ob) ==
    LET rv == RevisitIdx(c, ob)
    IN  IF rv = -1 THEN <<>>
        ELSE <<[type |-> ob.type, idx |-> ob.idx,
                zone |-> [open |-> ob.open, close |-> ob.close,
                          high |-> ob.high, low |-> ob.low],
                revisitIdx |-> rv,
                wickThrough |-> WickThrough(c, ob, rv),
                partialClose |-> PartialClose(c, ob, rv),
                coreUntouched |-> TRUE]>>

\* the entry pushed for one order block, or nothing
HiddenOf(c, ob) ==
    LET rv == RevisitIdx(c, ob)
    IN  IF rv = -1 THEN <<>>
        ELSE IF ~RevisitInvalidated(c, ob, rv)
                /\ (WickThrough(c, ob, rv) \/ PartialClose(c, ob, rv))
        THEN <<[type |-> ob.type, idx |-> ob.idx,
                zone |-> [open |-> ob.open, close |-> ob.close,
                          high |-> ob.high, low |-> ob.low],
                revisitIdx |-> rv,
                wickThrough |-> WickThrough(c, ob, rv),
                partialClose |-> PartialClose(c, ob, rv),
                coreUntouched |-> TRUE]>>
        ELSE <<>>

RECURSIVE HiddenOrderBlocks(_, _)
HiddenOrderBlocks(c, obs) ==
    IF obs = <<>> THEN <<>>
    ELSE HiddenOf(c, Head(obs)) \o HiddenOrderBlocks(c, Tail(obs))

(***************************************************************************)
(* VWAP and the 75th volume percentile                                     *)
(***************************************************************************)
RECURSIVE TpVolSum(_, _)
TpVolSum(c, k) ==
    IF k = 0 THEN 0
    ELSE (c[k].high + c[k].low + c[k].close) * c[k].volume + TpVolSum(c, k - 1)

RECURSIVE VolSum(_, _)
VolSum(c, k) == IF k = 0 THEN 0 ELSE c[k].volume + VolSum(c, k - 1)

\* sum(tp * v) / sum(v) with tp = (h + l + c) / 3; Null without volume
Vwap(c) ==
    IF VolSum(c, Len(c)) > 0 THEN Frac(TpVolSum(c, Len(c)), 3 * VolSum(c, Len(c)))
    ELSE Null

\* volSorted[Math.floor(volSorted.length * 0.75)] || 0
Vol75(c) ==
    LET n == Len(c)
        k == (3 * n) \div 4
    IN  CHOOSE x \in {c[i].volume : i \in 1 .. n} :
            /\ Cardinality({i \in 1 .. n : c[i].volume < x}) <= k
            /\ Cardinality({i \in 1 .. n : c[i].volume <= x}) > k

(***************************************************************************)
(* Synchronous part of one snapshot computation                            *)
(***************************************************************************)
Structure(c, atrPeriod, fvgLookback, emas) ==
    LET pivots == Pivots(c)
        bos == Bos(c)
        atr == Atr(c, atrPeriod)
        tolerance == Tolerance(c, atr)
        orderBlocks == OrderBlocks(c, bos, pivots, atr)
        sma50 == sma(Closes(c), 50)
        sma200 == sma(Closes(c), 200)
    IN  [pivots |-> pivots, bos |-> bos, fvg |-> Fvg(c, fvgLookback), atr |-> atr,
         sma50 |-> sma50, sma200 |-> sma200, trend |-> Trend(sma50, sma200),
         ema |-> EmaValues(Closes(c), emas), rsi |-> Rsi(c),
         liquidityZones |-> LiquidityZones(pivots, tolerance),
         orderBlocks |-> orderBlocks,
         hiddenOrderBlocks |-> HiddenOrderBlocks(c, orderBlocks),
         vwap |-> Vwap(c), vol75 |-> Vol75(c), baseATR |-> BaseATR(c, atr)]

(***************************************************************************)
(* Enrichment of a hidden order block                                      *)
(***************************************************************************)
zoneLow(hob) == Min2(hob.zone.open, hob.zone.close)
zoneHigh(hob) == Max2(hob.zone.open, hob.zone.close)

AdverseClose(hob, k) ==
    IF hob.type = "bull" THEN k.close < zoneLow(hob) ELSE k.close > zoneHigh(hob)

\* the candle body lies wholly on the favourable side of the zone
BodyClears(hob, k) ==
    IF hob.type = "bull" THEN bodyLow(k) > zoneHigh(hob) ELSE bodyHigh(k) < zoneLow(hob)

\* the loop over j = revisitIdx + 1 .. n - 1: an adverse close sets
\* invalidated and leaves the loop; fm is the local fullyMitigated so far
RECURSIVE ScanAfterRevisit(_, _, _, _)
ScanAfterRevisit(c, hob, j, fm) ==
    IF j >= Len(c) THEN [invalidated |-> FALSE, fullyMitigated |-> fm]
    ELSE IF AdverseClose(hob, At(c, j)) THEN [invalidated |-> TRUE, fullyMitigated |-> fm]
    ELSE ScanAfterRevisit(c, hob, j + 1, fm \/ BodyClears(hob, At(c, j)))

\* faulty variant: the loop's flag is stored as it stands
FullyMitigatedRaw(scan) == scan.fullyMitigated

\* hob.fullyMitigated = fullyMitigated && !invalidated
FullyMitigatedField(scan) == scan.fullyMitigated /\ ~scan.invalidated

\* Math.max(0, Math.min(1, num / den)) for den > 0
Clamp01Div(num, den) ==
    IF RLe(num, R(0)) THEN R(0)
    ELSE IF RGe(num, den) THEN R(1)
    ELSE RDiv(num, den)

NoConfirmations == [bos |-> FALSE, choch |-> FALSE, sfp |-> FALSE, fvgMitigation |-> FALSE]

\* the flags computed from the lower-timeframe candles inside the window
LtfFlags(subset, type, baseATR) ==
    LET len == Len(subset)
        pre == Max2(1, len \div 3)
        preRangeHigh == MaxOf({At(subset, i).h : i \in 0 .. pre - 1})
        preRangeLow == MinOf({At(subset, i).l : i \in 0 .. pre - 1})
        bos == IF type = "bull"
               THEN MaxOf({At(subset, i).c : i \in 0 .. len - 1}) > preRangeHigh
               ELSE MinOf({At(subset, i).c : i \in 0 .. len - 1}) < preRangeLow
        firstMove == At(subset, 1).c - At(subset, 0).c
        initialOpposite == IF type = "bull" THEN firstMove < 0 ELSE firstMove > 0
        tol == RMul(baseATR, Frac(1, 10))
        sfp == \E i \in 2 .. len - 1 :
                 \/ /\ type = "bear"
                    /\ RGt(R(At(subset, i).h - preRangeHigh), tol)
                    /\ At(subset, i).c < preRangeHigh
                 \/ /\ type = "bull"
                    /\ RGt(R(preRangeLow - At(subset, i).l), tol)
                    /\ At(subset, i).c > preRangeLow
        fvgMitigation ==
            \E i \in 2 .. len - 1 :
                /\ \/ At(subset, i).l > At(subset, i - 2).h
                   \/ At(subset, i).h < At(subset, i - 2).l
                /\ i + 1 < len
                /\ \/ At(subset, i + 1).l <= At(subset, i - 2).h
                   \/ At(subset, i + 1).h >= At(subset, i - 2).l
    IN  [bos |-> bos, choch |-> initialOpposite /\ bos, sfp |-> sfp,
         fvgMitigation |-> fvgMitigation]

\* faulty variant: no minimum on the number of candles inside the window
computeLtfUnguarded(revisitTs, type, interval, baseATR, ltf) ==
    IF ltfMap[interval] = "none" THEN NoConfirmations
    ELSE IF ltf.kind # "ok" THEN NoConfirmations
    ELSE LET windowEnd == revisitTs + 3 * intervalMsMap[interval]
             subset == SelectSeq(ltf.klines,
                                 LAMBDA k : k.ts >= revisitTs /\ k.ts <= windowEnd)
         IN  IF Len(subset) < 2 THEN NoConfirmations
             ELSE LtfFlags(subset, type, baseATR)

\* computeLtfConfirmations.  ltf is the outcome of the lower-timeframe
\* fetch: kind "none" (no fetch was made), "fail" (the fetch rejected),
\* "malformed" (the response is no array, so mapping it throws) or "ok".
computeLtfConfirmations(revisitTs, type, interval, baseATR, ltf) ==
    IF ltfMap[interval] = "none" THEN NoConfirmations
    ELSE IF ltf.kind # "ok" THEN NoConfirmations
    ELSE LET windowEnd == revisitTs + 3 * intervalMsMap[interval]
             subset == SelectSeq(ltf.klines,
                                 LAMBDA k : k.ts >= revisitTs /\ k.ts <= windowEnd)
         IN  IF Len(subset) < 5 THEN NoConfirmations
             ELSE LtfFlags(subset, type, baseATR)

\* Math.min(1, (|close[idx + windowN] - close[idx]| / baseATR) / 2)
DispScore(c, hob, baseATR) ==
    LET windowN == Min2(5, Len(c) - 1 - hob.idx)
    IN  IF windowN > 0
        THEN Clamp01Div(R(Abs(At(c, hob.idx + windowN).close - At(c, hob.idx).close)),
                        RMul(R(2), baseATR))
        ELSE R(0)

\* faulty variant: the part of the revisit range beyond the far side of the body
WickRatioFavourable(c, hob) ==
    LET rv == At(c, hob.revisitIdx)
        range == RMax(Epsilon, R(rv.high - rv.low))
    IN  IF hob.type = "bull" THEN Clamp01Div(R(rv.high - zoneHigh(hob)), range)
        ELSE Clamp01Div(R(zoneLow(hob) - rv.low), range)

WickRatio(c, hob) ==
    LET rv == At(c, hob.revisitIdx)
        range == RMax(Epsilon, R(rv.high - rv.low))
    IN  IF hob.type = "bull" THEN Clamp01Div(R(zoneLow(hob) - rv.low), range)
        ELSE Clamp01Div(R(rv.high - zoneHigh(hob)), range)

nearFvg(fvg, type, obIdx) ==
    \E g \in 1 .. Len(fvg) :
        fvg[g].type = type /\ fvg[g].startIdx >= obIdx - 2 /\ fvg[g].startIdx <= obIdx + 4

ZoneMid(hob) == Frac(hob.zone.open + hob.zone.close, 2)

\* 0 without a level on the block's side, else max(0, 1 - min(1, best / baseATR))
nearestLiquidityScore(zones, type, zoneMid, baseATR) ==
    LET levels == IF type = "bull" THEN zones.lows ELSE zones.highs
        dists == {RAbs(RSub(zoneMid, levels[i].level)) : i \in 1 .. Len(levels)}
        best == CHOOSE d \in dists : \A e \in dists : RLe(d, e)
    IN  IF dists = {} THEN R(0) ELSE RSub(R(1), Clamp01Div(best, baseATR))

vwapConfluence(vwap, zoneMid, baseATR) ==
    IF vwap = Null THEN FALSE
    ELSE RLe(RMul(R(2), RAbs(RSub(zoneMid, vwap))), baseATR)

hvnConfluence(c, obIdx, vol75) == At(c, obIdx).volume >= vol75

Components(c, st, hob, interval) ==
    [dispScore |-> DispScore(c, hob, st.baseATR),
     wickRatio |-> WickRatio(c, hob),
     fvgNear |-> nearFvg(st.fvg, hob.type, hob.idx),
     liqScore |-> nearestLiquidityScore(st.liquidityZones, hob.type, ZoneMid(hob), st.baseATR),
     vwap |-> vwapConfluence(st.vwap, ZoneMid(hob), st.baseATR),
     hvn |-> hvnConfluence(c, hob.idx, st.vol75),
     tfWeight |-> tfWeightMap[interval]]

(***************************************************************************)
(* Quality scorer, classifier and filter                                   *)
(***************************************************************************)
B(b) == IF b THEN 1 ELSE 0

\* faulty variant: the weighted sum divided by the timeframe weight
QualityScoreDivided(comp) ==
    RDiv(RAdd(RAdd(RAdd(RMul(Frac(35, 100), comp.dispScore),
                        RMul(Frac(15, 100), comp.wickRatio)),
                   RAdd(RMul(Frac(15, 100), R(B(comp.fvgNear))),
                        RMul(Frac(15, 100), comp.liqScore))),
              RAdd(RMul(Frac(1, 10), R(B(comp.vwap))),
                   RMul(Frac(1, 10), R(B(comp.hvn))))),
         comp.tfWeight)

\* (0.35 d + 0.15 w + 0.15 f + 0.15 l + 0.1 v + 0.1 h) * tfWeight, unrounded
QualityScore(comp) ==
    RMul(RAdd(RAdd(RAdd(RMul(Frac(35, 100), comp.dispScore),
                        RMul(Frac(15, 100), comp.wickRatio)),
                   RAdd(RMul(Frac(15, 100), R(B(comp.fvgNear))),
                        RMul(Frac(15, 100), comp.liqScore))),
              RAdd(RMul(Frac(1, 10), R(B(comp.vwap))),
                   RMul(Frac(1, 10), R(B(comp.hvn))))),
         comp.tfWeight)

confCount(ltf) == B(ltf.bos) + B(ltf.choch) + B(ltf.sfp) + B(ltf.fvgMitigation)

confConfluence(comp) ==
    B(comp.vwap) + B(comp.hvn) + B(RGe(comp.liqScore, Frac(1, 2))) + B(comp.fvgNear)

\* faulty variant: the timeframe weight is not tested
IsVeryStrongAnyWeight(invalidated, comp, ltf, veryStrongMinQuality) ==
    /\ ~invalidated
    /\ RGe(QualityScore(comp), veryStrongMinQuality)
    /\ confCount(ltf) >= 2
    /\ confConfluence(comp) >= 2

\* tested on the unrounded score
IsVeryStrong(invalidated, comp, ltf, veryStrongMinQuality) ==
    /\ ~invalidated
    /\ RGe(QualityScore(comp), veryStrongMinQuality)
    /\ RGe(comp.tfWeight, Frac(13, 10))
    /\ confCount(ltf) >= 2
    /\ confConfluence(comp) >= 2

\* tested on hob.qualityScore, the score rounded to three decimals
StrengthLabel(isVeryStrong, qualityScore, minQuality) ==
    IF isVeryStrong THEN "very-strong"
    ELSE IF RGe(qualityScore, minQuality) THEN "strong" ELSE "normal"

\* the fields the enrichment loop assigns to one hidden order block
Enriched(hob, scan, ltf, comp, p) ==
    LET vs == IsVeryStrong(scan.invalidated, comp, ltf, p.veryStrongMinQuality)
        q == Round3(QualityScore(comp))
    IN  [type |-> hob.type, idx |-> hob.idx, zone |-> hob.zone,
         revisitIdx |-> hob.revisitIdx, wickThrough |-> hob.wickThrough,
         partialClose |-> hob.partialClose, coreUntouched |-> hob.coreUntouched,
         invalidated |-> scan.invalidated,
         fullyMitigated |-> FullyMitigatedField(scan),
         ltfConfirmations |-> ltf,
         qualityScore |-> q,
         components |-> comp,
         isVeryStrong |-> vs,
         strengthLabel |-> StrengthLabel(vs, q, p.minQuality)]

\* one pass of the enrichment loop body; ltf is the lower-timeframe outcome
EnrichHob(c, st, hob, ltf, p) ==
    Enriched(hob,
             ScanAfterRevisit(c, hob, hob.revisitIdx + 1, FALSE),
             computeLtfConfirmations(At(c, hob.revisitIdx).ts, hob.type, p.interval,
                                     st.baseATR, ltf),
             Components(c, st, hob, p.interval),
             p)

Has(hob, f) == f \in DOMAIN hob

\* faulty variant: the very-strong test is left out
filterHobNoVeryStrong(hob, p) ==
    LET ltfOk == \/ ~p.requireLTFConfirmations
                 \/ /\ Has(hob, "ltfConfirmations")
                    /\ \/ hob.ltfConfirmations.bos
                       \/ hob.ltfConfirmations.choch
                       \/ hob.ltfConfirmations.sfp
                       \/ hob.ltfConfirmations.fvgMitigation
        qualityOk == Has(hob, "qualityScore") /\ RGe(hob.qualityScore, p.minQuality)
        invalidationOk == ~p.excludeInvalidated \/ ~(Has(hob, "invalidated") /\ hob.invalidated)
        mitigationOk == ~p.onlyFullyMitigated \/ (Has(hob, "fullyMitigated") /\ hob.fullyMitigated)
    IN  ltfOk /\ qualityOk /\ invalidationOk /\ mitigationOk

\* faulty variant: the very-strong test reads the flag the wrong way round
filterHobInverted(hob, p) ==
    LET ltfOk == \/ ~p.requireLTFConfirmations
                 \/ /\ Has(hob, "ltfConfirmations")
                    /\ \/ hob.ltfConfirmations.bos
                       \/ hob.ltfConfirmations.choch
                       \/ hob.ltfConfirmations.sfp
                       \/ hob.ltfConfirmations.fvgMitigation
        qualityOk == Has(hob, "qualityScore") /\ RGe(hob.qualityScore, p.minQuality)
        invalidationOk == ~p.excludeInvalidated \/ ~(Has(hob, "invalidated") /\ hob.invalidated)
        mitigationOk == ~p.onlyFullyMitigated \/ (Has(hob, "fullyMitigated") /\ hob.fullyMitigated)
        veryStrongOk == p.onlyVeryStrong \/ (Has(hob, "isVeryStrong") /\ hob.isVeryStrong)
    IN  ltfOk /\ qualityOk /\ invalidationOk /\ mitigationOk /\ veryStrongOk

\* filterHob of get_market_snapshot; a field never assigned is undefined
filterHob(hob, p) ==
    LET ltfOk == \/ ~p.requireLTFConfirmations
                 \/ /\ Has(hob, "ltfConfirmations")
                    /\ \/ hob.ltfConfirmations.bos
                       \/ hob.ltfConfirmations.choch
                       \/ hob.ltfConfirmations.sfp
                       \/ hob.ltfConfirmations.fvgMitigation
        qualityOk == Has(hob, "qualityScore") /\ RGe(hob.qualityScore, p.minQuality)
        invalidationOk == ~p.excludeInvalidated \/ ~(Has(hob, "invalidated") /\ hob.invalidated)
        mitigationOk == ~p.onlyFullyMitigated \/ (Has(hob, "fullyMitigated") /\ hob.fullyMitigated)
        veryStrongOk == ~p.onlyVeryStrong \/ (Has(hob, "isVeryStrong") /\ hob.isVeryStrong)
    IN  ltfOk /\ qualityOk /\ invalidationOk /\ mitigationOk /\ veryStrongOk

\* filterHob of get_market_snapshots: no very-strong test
filterHobBatch(hob, p) ==
    LET ltfOk == \/ ~p.requireLTFConfirmations
                 \/ /\ Has(hob, "ltfConfirmations")
                    /\ \/ hob.ltfConfirmations.bos
                       \/ hob.ltfConfirmations.choch
                       \/ hob.ltfConfirmations.sfp
                       \/ hob.ltfConfirmations.fvgMitigation
        qualityOk == Has(hob, "qualityScore") /\ RGe(hob.qualityScore, p.minQuality)
        invalidationOk == ~p.excludeInvalidated \/ ~(Has(hob, "invalidated") /\ hob.invalidated)
        mitigationOk == ~p.onlyFullyMitigated \/ (Has(hob, "fullyMitigated") /\ hob.fullyMitigated)
    IN  ltfOk /\ qualityOk /\ invalidationOk /\ mitigationOk

\* faulty variant: the kept blocks are handed on without their qualityScore
FilteredStripped(hobs, p) ==
    LET kept == SelectSeq(hobs, LAMBDA h : filterHob(h, p))
    IN  [k \in 1 .. Len(kept) |-> [f \in DOMAIN kept[k] \ {"qualityScore"} |-> kept[k][f]]]

Filtered(hobs, p) == SelectSeq(hobs, LAMBDA h : filterHob(h, p))
FilteredBatch(hobs, p) == SelectSeq(hobs, LAMBDA h : filterHobBatch(h, p))

\* arr.slice(-k)
LastK(s, k) == IF Len(s) <= k THEN s ELSE SubSeq(s, Len(s) - k + 1, Len(s))

\* the compact single-symbol result (the fields this model follows)
Snapshot(symbol, p, st, hobs) ==
    [kind |-> "snapshot", symbol |-> symbol, interval |-> p.interval,
     bos |-> st.bos, pivots |-> LastK(st.pivots, 6),
     trend |-> st.trend, sma50 |-> st.sma50, sma200 |-> st.sma200, atr |-> st.atr,
     rsi |-> st.rsi, ema |-> st.ema,
     orderBlocks |-> st.orderBlocks,
     hiddenOrderBlocks |-> Filtered(hobs, p)]

\* the compact per-symbol entry of a batch: the hidden order blocks are
\* filtered as the tracker left them, without enrichment
BatchSnapshot(symbol, p, st) ==
    [kind |-> "snapshot", symbol |-> symbol, interval |-> p.interval,
     bos |-> st.bos, pivots |-> LastK(st.pivots, 4),
     trend |-> st.trend, sma50 |-> st.sma50, sma200 |-> st.sma200, atr |-> st.atr,
     rsi |-> st.rsi, ema |-> st.ema,
     orderBlocks |-> st.orderBlocks,
     hiddenOrderBlocks |-> FilteredBatch(st.hiddenOrderBlocks, p)]

NoCandles(symbol) == [kind |-> "error", symbol |-> symbol, error |-> "no_candles"]

(***************************************************************************)
(* Requests and responses explored                                         *)
(***************************************************************************)
MaxLen == 3
MaxBatch == 2
Grid == 2

DefaultLimit == 150
DefaultAtrPeriod == 14
DefaultEmas == <<20, 50, 200>>
DefaultFvgLookback == 60
LtfLimit == 300

\* candle bodies and wicks on a four-level price grid, closed under mirroring
CandleShapes ==
    {[open |-> 3, high |-> 3, low |-> 2, close |-> 2, volume |-> 1],
     [open |-> 2, high |-> 3, low |-> 2, close |-> 3, volume |-> 1],
     [open |-> 2, high |-> 3, low |-> 1, close |-> 3, volume |-> 1],
     [open |-> 3, high |-> 4, low |-> 2, close |-> 2, volume |-> 1],
     [open |-> 4, high |-> 4, low |-> 4, close |-> 4, volume |-> 2],
     [open |-> 1, high |-> 1, low |-> 1, close |-> 1, volume |-> 2],
     [open |-> 3, high |-> 3, low |-> 1, close |-> 1, volume |-> 1],
     [open |-> 2, high |-> 4, low |-> 2, close |-> 4, volume |-> 1]}

K(o, h, l, c, v) == [open |-> o, high |-> h, low |-> l, close |-> c, volume |-> v]

\* four-candle series for the case three candles cannot show: a mitigating
\* body followed by an adverse close, for a bull and for a bear block
ScenarioSeries ==
    {<<K(3, 3, 2, 2, 1), K(2, 3, 1, 3, 1), K(4, 4, 4, 4, 2), K(3, 3, 1, 1, 1)>>,
     <<K(2, 3, 2, 3, 1), K(3, 4, 2, 2, 1), K(1, 1, 1, 1, 2), K(2, 4, 2, 4, 1)>>}

\* the candle source stamps candle i with openTime i * interval
WithTs(s, step) ==
    [i \in 1 .. Len(s) |->
        [ts |-> (i - 1) * step, open |-> s[i].open, high |-> s[i].high,
         low |-> s[i].low, close |-> s[i].close, volume |-> s[i].volume]]

GeneratedSeries == UNION {[1 .. n -> CandleShapes] : n \in 0 .. MaxLen}

\* what binanceClient.candles may answer for the primary interval
PrimaryOutcomes(fetchInterval) ==
    {[kind |-> "fail", klines |-> <<>>]}
    \cup {[kind |-> "ok", klines |-> WithTs(s, intervalMsMap[fetchInterval])] :
            s \in GeneratedSeries \cup ScenarioSeries}

L(o, h, l, c) == [o |-> o, h |-> h, l |-> l, c |-> c]

\* lower-timeframe price paths that break the opening range: a dip then a
\* break upward; a rally then a break downward
LtfBreakPaths ==
    {<<L(2, 3, 2, 3), L(3, 3, 2, 2), L(2, 3, 2, 3), L(3, 4, 3, 4), L(4, 4, 3, 4)>>,
     <<L(3, 3, 2, 2), L(2, 3, 2, 3), L(3, 3, 2, 2), L(2, 2, 1, 1), L(1, 2, 1, 1)>>}

\* the other paths: flat; a sweep below the opening low; a sweep above the
\* opening high; a gap that the next candle fills
LtfPaths ==
    LtfBreakPaths
    \cup {<<L(2, 2, 2, 2), L(2, 2, 2, 2), L(2, 2, 2, 2), L(2, 2, 2, 2), L(2, 2, 2, 2)>>,
          <<L(3, 3, 2, 3), L(3, 3, 2, 3), L(3, 3, 1, 3), L(3, 3, 3, 3), L(3, 3, 3, 3)>>,
          <<L(2, 3, 2, 2), L(2, 3, 2, 2), L(2, 4, 2, 2), L(2, 2, 2, 2), L(2, 2, 2, 2)>>,
          <<L(1, 1, 1, 1), L(1, 2, 1, 2), L(3, 4, 2, 4), L(3, 3, 1, 2), L(2, 2, 2, 2)>>}

\* a response starts at the revisit (offset 0) or, for the breaking paths,
\* also one lower-timeframe bar before it, which leaves four candles inside
\* the window
LtfResponses ==
    {<<path, 0>> : path \in LtfPaths} \cup {<<path, -1>> : path \in LtfBreakPaths}

LtfKlines(path, revisitTs, step, off) ==
    [i \in 1 .. Len(path) |->
        [ts |-> revisitTs + (off + i - 1) * step, o |-> path[i].o, h |-> path[i].h,
         l |-> path[i].l, c |-> path[i].c]]

\* what binanceClient.candles may answer for the lower timeframe: a
\* rejection, something that is no array, or candles
LtfOutcomes(revisitTs, ltfInterval) ==
    {[kind |-> "fail", klines |-> <<>>], [kind |-> "malformed", klines |-> <<>>]}
    \cup {[kind |-> "ok",
           klines |-> LtfKlines(r[1], revisitTs, intervalMsMap[ltfInterval], r[2])] :
            r \in LtfResponses}

NoLtf == [kind |-> "none", klines |-> <<>>]

Symbols == {"BTCUSDT", "ETHUSDT", "btc/usdt"}

\* validateSymbol (utils/validation.ts): throws on a malformed symbol
validateSymbol(symbol) == symbol \in {"BTCUSDT", "ETHUSDT"}

\* validateInput (utils/validation.ts) with the zod schema: interval in the
\* enum, limit a number
validateInput(a) == a.interval \in Intervals /\ a.limitType = "number"

RequestIntervals == {"1m", "1h", "4d", "7h"}

\* the request parameters the model follows, limit and the two periods at
\* their schema defaults
FullParams(interval, minQuality, requireLTFConfirmations, excludeInvalidated, onlyFullyMitigated, veryStrongMinQuality, onlyVeryStrong) ==
    [interval |-> interval, limit |-> DefaultLimit, emas |-> DefaultEmas,
     atrPeriod |-> DefaultAtrPeriod, fvgLookback |-> DefaultFvgLookback,
     minQuality |-> minQuality, requireLTFConfirmations |-> requireLTFConfirmations,
     excludeInvalidated |-> excludeInvalidated, onlyFullyMitigated |-> onlyFullyMitigated,
     veryStrongMinQuality |-> veryStrongMinQuality, onlyVeryStrong |-> onlyVeryStrong,
     telemetry |-> FALSE]

\* the other filter parameters at their schema defaults
Params(interval, minQuality, excludeInvalidated) ==
    FullParams(interval, minQuality, FALSE, excludeInvalidated, FALSE, Frac(3, 4), FALSE)

RequestParams ==
    {Params(iv, mq, ex) : iv \in RequestIntervals, mq \in {R(0), Frac(3, 5)},
                          ex \in BOOLEAN}

LimitTypes == {"number", "string"}

\* candle series for the filter study: blocks that are very-strong
\* candidates (bull, bear), a bear block whose score needs rounding, a weak
\* block, mitigated blocks, blocks invalidated after the revisit with and
\* without an earlier mitigating body, and a block whose revisit itself
\* closes through the body
FilterSeries ==
    {<<K(1, 1, 1, 1, 2), K(3, 3, 1, 1, 1), K(2, 3, 2, 3, 1)>>,
     <<K(4, 4, 4, 4, 2), K(2, 4, 2, 4, 1), K(3, 3, 2, 2, 1)>>,
     <<K(4, 4, 4, 4, 2), K(2, 4, 2, 4, 1), K(2, 3, 2, 3, 1)>>,
     <<K(3, 3, 1, 1, 1), K(4, 4, 4, 4, 2), K(2, 3, 2, 3, 1)>>,
     <<K(1, 1, 1, 1, 2), K(3, 3, 2, 2, 1), K(2, 3, 2, 3, 1), K(4, 4, 4, 4, 2)>>,
     <<K(3, 3, 2, 2, 1), K(2, 3, 2, 3, 1), K(3, 4, 2, 2, 1), K(1, 1, 1, 1, 2)>>,
     <<K(3, 3, 2, 2, 1), K(3, 4, 2, 2, 1), K(1, 1, 1, 1, 2)>>,
     <<K(3, 3, 2, 2, 1), K(4, 4, 4, 4, 2), K(3, 3, 1, 1, 1)>>}
    \cup ScenarioSeries

FilterOutcomes(fetchInterval) ==
    {[kind |-> "ok", klines |-> WithTs(s, intervalMsMap[fetchInterval])] :
        s \in FilterSeries}

FilterIntervals == {"1h", "1w"}

\* the default very-strong threshold, and one that a score reaches only
\* after rounding
VeryStrongThresholds == {Frac(3, 4), Frac(287, 500)}

FilterParams ==
    {FullParams(iv, mq, rl, ex, fm, vsq, ovs) :
        iv \in FilterIntervals, mq \in {R(0), Frac(3, 5)}, rl \in BOOLEAN,
        ex \in BOOLEAN, fm \in BOOLEAN, vsq \in VeryStrongThresholds, ovs \in BOOLEAN}

\* component values on a grid of Grid + 1 points of [0, 1]
GridValues == {Frac(i, Grid) : i \in 0 .. Grid}

ScoreComponents ==
    {[dispScore |-> d, wickRatio |-> w, fvgNear |-> f, liqScore |-> l,
      vwap |-> v, hvn |-> h, tfWeight |-> tfWeightMap[iv]] :
        d \in GridValues, w \in GridValues, f \in BOOLEAN, l \in GridValues,
        v \in BOOLEAN, h \in BOOLEAN, iv \in Intervals}

\* the tracker entry the score study enriches
ScoredHob ==
    [type |-> "bull", idx |-> 0,
     zone |-> [open |-> 3, close |-> 2, high |-> 3, low |-> 2],
     revisitIdx |-> 1, wickThrough |-> FALSE, partialClose |-> TRUE,
     coreUntouched |-> TRUE]

(***************************************************************************)
(* The two snapshot tools as a state machine                               *)
(***************************************************************************)
VARIABLES
    pc,         \* "idle", "awaitPrimary", "awaitLtf", "done"; "drawn", "scored"
    tool,       \* "none", "get_market_snapshot", "get_market_snapshots"
    args,       \* the arguments of the request in progress
    cur,        \* batch: number of symbols already answered
    candles,    \* the candles of the symbol being computed
    struct,     \* the structure computed from those candles
    hobs,       \* hiddenOrderBlocks of the computation in progress
    hobIdx,     \* the enrichment loop's i
    fetches,    \* every request the call in progress sent to the exchange, in order
    responses,  \* the outcome of each primary fetch, in order
    ltfSeen,    \* the outcome of each lower-timeframe fetch, in order
    result,     \* what the handler returned or threw
    draw,       \* score study: the components handed to the scorer
    telemetryLog,   \* the lines appended to the telemetry file, in order
    cache,      \* the keys of the module's in-memory response cache
    history,    \* the tool calls that have finished, in order
    env,        \* process.env: BINANCE_TESTNET and ALLOW_MAINNET_TRADING
    limiter,    \* BinanceMCPServer.concurrency and the requests passing through it
    now         \* Date.now(), in ticks

vars == <<pc, tool, args, cur, candles, struct, hobs, hobIdx, fetches, responses, ltfSeen,
          result, draw, telemetryLog, cache, history, env, limiter, now>>

\* neither variable is set in the environment
NoEnv == [BINANCE_TESTNET |-> "unset", ALLOW_MAINNET_TRADING |-> "unset"]

\* the limiter before any request, with the default of four slots
NoLimiter ==
    [current |-> 0, max |-> 4, queue |-> <<>>, req |-> <<>>, enqueued |-> <<>>, woken |-> <<>>]

NoArgs == [symbols |-> <<>>, limitType |-> "number", p |-> Params("1h", R(0), TRUE)]
NoResult == [kind |-> "pending"]
NoStructure == [bos |-> "none"]
NoDraw == [dispScore |-> R(0), wickRatio |-> R(0), fvgNear |-> FALSE, liqScore |-> R(0),
           vwap |-> FALSE, hvn |-> FALSE, tfWeight |-> R(1)]
Thrown(why) == [kind |-> "thrown", error |-> why]
Fetch(symbol, interval, limit) ==
    [op |-> "candles", symbol |-> symbol, interval |-> interval, limit |-> limit]

Init ==
    /\ pc = "idle"
    /\ tool = "none"
    /\ args = NoArgs
    /\ cur = 0
    /\ candles = <<>>
    /\ struct = NoStructure
    /\ hobs = <<>>
    /\ hobIdx = 0
    /\ fetches = <<>>
    /\ responses = <<>>
    /\ ltfSeen = <<>>
    /\ result = NoResult
    /\ draw = NoDraw
    /\ telemetryLog = <<>>
    /\ cache = {}
    /\ history = <<>>
    /\ env = NoEnv
    /\ limiter = NoLimiter
    /\ now = 0

\* faulty variant: the telemetry lines are written whatever the request says
TelemetryAlways(symbol, p, returned) ==
    [k \in 1 .. Len(returned) |->
        [type |-> "hob", symbol |-> symbol, interval |-> p.interval, hob |-> returned[k]]]
    \o <<[type |-> "snapshot_features", symbol |-> symbol, interval |-> p.interval,
          hiddenOrderBlocksCount |-> Len(returned)]>>

\* logHOBs (one line per returned block, none for an empty list) followed
\* by logSnapshot, when the request asked for telemetry
TelemetryRecords(symbol, p, returned) ==
    IF p.telemetry
    THEN [k \in 1 .. Len(returned) |->
             [type |-> "hob", symbol |-> symbol, interval |-> p.interval,
              hob |-> returned[k]]]
         \o <<[type |-> "snapshot_features", symbol |-> symbol, interval |-> p.interval,
               hiddenOrderBlocksCount |-> Len(returned)]>>
    ELSE <<>>

\* a finished tool call: what it was given and what it answered
CallRecord ==
    [tool |-> tool, args |-> args, responses |-> responses, ltfSeen |-> ltfSeen,
     result |-> result]

\* what a step of a snapshot tool leaves behind: the given telemetry lines,
\* no cache entry
Leaves(records) ==
    /\ telemetryLog' = telemetryLog \o records
    /\ cache' = cache
    /\ env' = env
    /\ limiter' = limiter
    /\ now' = now
    /\ history' = IF pc' = "done" THEN Append(history, CallRecord') ELSE history

\* the telemetry of the step of get_market_snapshot that returns the snapshot
SingleTelemetry ==
    IF pc' = "done" /\ result'.kind = "snapshot"
    THEN TelemetryRecords(args'.symbols[1], args'.p, result'.hiddenOrderBlocks)
    ELSE <<>>

St(c, p) == Structure(c, p.atrPeriod, p.fvgLookback, p.emas)

\* get_market_snapshot up to its first await: validateInput, validateSymbol,
\* then the primary fetch on the normalised interval
CallSnapshot(a) ==
    /\ pc = "idle"
    /\ tool' = "get_market_snapshot"
    /\ args' = a
    /\ IF validateInput([interval |-> a.p.interval, limitType |-> a.limitType])
          /\ validateSymbol(a.symbols[1])
       THEN /\ fetches' = Append(fetches,
                            Fetch(a.symbols[1], normalizeInterval(a.p.interval), a.p.limit))
            /\ pc' = "awaitPrimary"
            /\ result' = result
       ELSE /\ fetches' = fetches
            /\ pc' = "done"
            /\ result' = Thrown("validation")
    /\ UNCHANGED <<cur, candles, struct, hobs, hobIdx, responses, ltfSeen, draw>>
    /\ Leaves(SingleTelemetry)

\* the primary fetch rejects: handleBinanceError rethrows
PrimaryFails ==
    /\ pc = "awaitPrimary" /\ tool = "get_market_snapshot"
    /\ responses' = Append(responses, [kind |-> "fail", klines |-> <<>>])
    /\ result' = Thrown("upstream")
    /\ pc' = "done"
    /\ UNCHANGED <<tool, args, cur, candles, struct, hobs, hobIdx, fetches, ltfSeen, draw>>
    /\ Leaves(SingleTelemetry)

\* the primary fetch answers: everything up to the first lower-timeframe
\* await, or up to the return when no block needs one
PrimaryAnswers(out) ==
    /\ pc = "awaitPrimary" /\ tool = "get_market_snapshot"
    /\ out.kind = "ok"
    /\ responses' = Append(responses, out)
    /\ candles' = out.klines
    /\ LET c == out.klines
           p == args.p
           symbol == args.symbols[1]
       IN  IF c = <<>>
           THEN /\ result' = NoCandles(symbol)
                /\ pc' = "done"
                /\ UNCHANGED <<struct, hobs, hobIdx, fetches>>
           ELSE LET st == struct'
                    found == st.hiddenOrderBlocks
                IN  /\ struct' = St(c, p)
                    /\ IF found = <<>>
                       THEN /\ hobs' = <<>>
                            /\ result' = Snapshot(symbol, p, st, <<>>)
                            /\ pc' = "done"
                            /\ UNCHANGED <<hobIdx, fetches>>
                       ELSE IF ltfMap[p.interval] = "none"
                       THEN /\ hobs' = [i \in 1 .. Len(found) |->
                                           EnrichHob(c, st, found[i], NoLtf, p)]
                            /\ result' = Snapshot(symbol, p, st, hobs')
                            /\ pc' = "done"
                            /\ UNCHANGED <<hobIdx, fetches>>
                       ELSE /\ hobs' = found
                            /\ hobIdx' = 0
                            /\ fetches' = Append(fetches,
                                             Fetch(symbol, ltfMap[p.interval], LtfLimit))
                            /\ result' = result
                            /\ pc' = "awaitLtf"
    /\ UNCHANGED <<tool, args, cur, ltfSeen, draw>>
    /\ Leaves(SingleTelemetry)

\* faulty variant: a rejected lower-timeframe fetch is issued again
LtfSettlesRetry(ltf) ==
    /\ pc = "awaitLtf"
    /\ ltfSeen' = Append(ltfSeen, ltf)
    /\ LET c == candles
           p == args.p
           st == struct
           done == [hobs EXCEPT ![hobIdx + 1] = EnrichHob(c, st, hobs[hobIdx + 1], ltf, p)]
       IN  IF ltf.kind = "fail" /\ Len(ltfSeen) < 2
           THEN /\ fetches' = Append(fetches,
                                Fetch(args.symbols[1], ltfMap[p.interval], LtfLimit))
                /\ UNCHANGED <<hobs, hobIdx, result, pc>>
           ELSE /\ hobs' = done
                /\ hobIdx' = hobIdx + 1
                /\ fetches' = fetches
                /\ result' = Snapshot(args.symbols[1], p, st, done)
                /\ pc' = "done"
    /\ UNCHANGED <<tool, args, cur, candles, struct, responses, draw>>
    /\ Leaves(SingleTelemetry)

\* the lower-timeframe fetch of block hobIdx settles (answer or rejection):
\* the rest of the loop body, then the next block's fetch or the return
LtfSettles(ltf) ==
    /\ pc = "awaitLtf"
    /\ ltfSeen' = Append(ltfSeen, ltf)
    /\ LET c == candles
           p == args.p
           st == struct
           done == [hobs EXCEPT ![hobIdx + 1] = EnrichHob(c, st, hobs[hobIdx + 1], ltf, p)]
       IN  /\ hobs' = done
           /\ hobIdx' = hobIdx + 1
           /\ IF hobIdx + 1 < Len(hobs)
              THEN /\ fetches' = Append(fetches,
                                   Fetch(args.symbols[1], ltfMap[p.interval], LtfLimit))
                   /\ result' = result
                   /\ pc' = "awaitLtf"
              ELSE /\ fetches' = fetches
                   /\ result' = Snapshot(args.symbols[1], p, st, done)
                   /\ pc' = "done"
    /\ UNCHANGED <<tool, args, cur, candles, struct, responses, draw>>
    /\ Leaves(SingleTelemetry)

\* get_market_snapshots up to its first await: validateInput only, then the
\* fetch for the first symbol (or the empty result)
CallSnapshots(a) ==
    /\ pc = "idle"
    /\ tool' = "get_market_snapshots"
    /\ args' = a
    /\ cur' = 0
    /\ IF ~validateInput([interval |-> a.p.interval, limitType |-> a.limitType])
       THEN /\ fetches' = fetches
            /\ result' = Thrown("validation")
            /\ pc' = "done"
       ELSE IF a.symbols = <<>>
       THEN /\ fetches' = fetches
            /\ result' = [kind |-> "batch", results |-> <<>>]
            /\ pc' = "done"
       ELSE /\ fetches' = Append(fetches,
                            Fetch(a.symbols[1], normalizeInterval(a.p.interval), a.p.limit))
            /\ result' = [kind |-> "batch", results |-> <<>>]
            /\ pc' = "awaitPrimary"
    /\ UNCHANGED <<candles, struct, hobs, hobIdx, responses, ltfSeen, draw>>
    /\ Leaves(<<>>)

\* faulty variant: a symbol without candles gets the generic error entry
BatchEntryNoStub(symbol, p, out) ==
    IF out.kind # "ok" \/ out.klines = <<>>
    THEN [kind |-> "error", symbol |-> symbol, error |-> "sanitized"]
    ELSE BatchSnapshot(symbol, p, St(out.klines, p))

\* the entry pushed for one symbol of a batch: the catch's entry when the
\* fetch rejects or its answer cannot be mapped
BatchEntry(symbol, p, out) ==
    IF out.kind # "ok" THEN [kind |-> "error", symbol |-> symbol, error |-> "sanitized"]
    ELSE IF out.klines = <<>> THEN NoCandles(symbol)
    ELSE BatchSnapshot(symbol, p, St(out.klines, p))

\* the fetch of symbol cur + 1 settles: its entry is pushed, then the next
\* symbol's fetch is issued or the array is returned
BatchSettles(out) ==
    /\ pc = "awaitPrimary" /\ tool = "get_market_snapshots"
    /\ responses' = Append(responses, out)
    /\ cur' = cur + 1
    /\ result' = [kind |-> "batch",
                  results |-> Append(result.results,
                                     BatchEntry(args.symbols[cur + 1], args.p, out))]
    /\ IF cur + 1 < Len(args.symbols)
       THEN /\ fetches' = Append(fetches,
                            Fetch(args.symbols[cur + 2], normalizeInterval(args.p.interval),
                                  args.p.limit))
            /\ pc' = "awaitPrimary"
       ELSE /\ fetches' = fetches
            /\ pc' = "done"
    /\ UNCHANGED <<tool, args, candles, struct, hobs, hobIdx, ltfSeen, draw>>
    /\ LET entry == BatchEntry(args.symbols[cur + 1], args.p, out)
       IN  Leaves(IF entry.kind = "snapshot"
                  THEN TelemetryRecords(entry.symbol, args.p, entry.hiddenOrderBlocks)
                  ELSE <<>>)

SingleArgs ==
    {[symbols |-> <<s>>, limitType |-> lt, p |-> p] :
        s \in {"BTCUSDT", "btc/usdt"}, lt \in LimitTypes, p \in RequestParams}

BatchSymbolLists == UNION {[1 .. n -> Symbols] : n \in 0 .. MaxBatch}

\* a batch is explored on the one interval and the default exclusion
BatchArgs ==
    {[symbols |-> ss, limitType |-> lt, p |-> Params(iv, mq, TRUE)] :
        ss \in BatchSymbolLists, lt \in LimitTypes, iv \in {"1h", "7h"},
        mq \in {R(0), Frac(3, 5)}}

\* candles answered to a batch fetch: nothing, one candle, a three-candle
\* series that leaves a surviving bull block, one that leaves a bear block
BatchSeries ==
    {<<>>,
     <<K(3, 3, 2, 2, 1)>>,
     <<K(3, 3, 2, 2, 1), K(3, 3, 2, 2, 1), K(2, 3, 2, 3, 1)>>,
     <<K(2, 3, 2, 3, 1), K(2, 3, 2, 3, 1), K(3, 3, 2, 2, 1)>>}

\* a batch fetch rejects, answers something that is no array, or answers candles
BatchOutcomes(fetchInterval) ==
    {[kind |-> "fail", klines |-> <<>>], [kind |-> "malformed", klines |-> <<>>]}
    \cup {[kind |-> "ok", klines |-> WithTs(s, intervalMsMap[fetchInterval])] :
            s \in BatchSeries}

Next ==
    \/ \E a \in SingleArgs : CallSnapshot(a)
    \/ PrimaryFails
    \/ /\ pc = "awaitPrimary" /\ tool = "get_market_snapshot"
       /\ \E out \in PrimaryOutcomes(normalizeInterval(args.p.interval)) :
            PrimaryAnswers(out)
    \/ /\ pc = "awaitLtf"
       /\ \E ltf \in LtfOutcomes(At(candles, hobs[hobIdx + 1].revisitIdx).ts,
                                 ltfMap[args.p.interval]) : LtfSettles(ltf)
    \/ \E a \in BatchArgs : CallSnapshots(a)
    \/ /\ pc = "awaitPrimary" /\ tool = "get_market_snapshots"
       /\ \E out \in BatchOutcomes(normalizeInterval(args.p.interval)) :
            BatchSettles(out)

Spec == Init /\ [][Next]_vars

(***************************************************************************)
(* The single-symbol tool under every combination of the filter parameters *)
(***************************************************************************)
FilterArgs ==
    {[symbols |-> <<"BTCUSDT">>, limitType |-> "number", p |-> p] : p \in FilterParams}

NextFilter ==
    \/ \E a \in FilterArgs : CallSnapshot(a)
    \/ /\ pc = "awaitPrimary" /\ tool = "get_market_snapshot"
       /\ \E out \in FilterOutcomes(normalizeInterval(args.p.interval)) :
            PrimaryAnswers(out)
    \/ /\ pc = "awaitLtf"
       /\ \E ltf \in LtfOutcomes(At(candles, hobs[hobIdx + 1].revisitIdx).ts,
                                 ltfMap[args.p.interval]) : LtfSettles(ltf)

SpecFilter == Init /\ [][NextFilter]_vars

(***************************************************************************)
(* The scorer on a grid of component values                                *)
(***************************************************************************)
\* the enrichment loop's scoring of one block, its components given
Scored(comp) ==
    <<Enriched(ScoredHob, [invalidated |-> FALSE, fullyMitigated |-> FALSE],
               NoConfirmations, comp, NoArgs.p)>>

InitScore ==
    /\ pc = "drawn"
    /\ tool = "none"
    /\ args = NoArgs
    /\ cur = 0
    /\ candles = <<>>
    /\ struct = NoStructure
    /\ hobs = <<>>
    /\ hobIdx = 0
    /\ fetches = <<>>
    /\ responses = <<>>
    /\ ltfSeen = <<>>
    /\ result = NoResult
    /\ draw \in ScoreComponents
    /\ telemetryLog = <<>>
    /\ cache = {}
    /\ history = <<>>
    /\ env = NoEnv
    /\ limiter = NoLimiter
    /\ now = 0

ScoreDrawn ==
    /\ pc = "drawn"
    /\ hobs' = Scored(draw)
    /\ pc' = "scored"
    /\ UNCHANGED <<tool, args, cur, candles, struct, hobIdx, fetches, responses,
                   ltfSeen, result, draw, telemetryLog, cache, history, env,
                   limiter, now>>

\* the same block scored again with one component raised
Rescore(comp) ==
    /\ pc = "scored"
    /\ draw' = comp
    /\ hobs' = Scored(comp)
    /\ UNCHANGED <<pc, tool, args, cur, candles, struct, hobIdx, fetches, responses,
                   ltfSeen, result, telemetryLog, cache, history, env,
                   limiter, now>>

RaiseDisplacement ==
    /\ RLt(draw.dispScore, R(1))
    /\ Rescore([draw EXCEPT !.dispScore = RAdd(@, Frac(1, Grid))])

RaiseWickRatio ==
    /\ RLt(draw.wickRatio, R(1))
    /\ Rescore([draw EXCEPT !.wickRatio = RAdd(@, Frac(1, Grid))])

RaiseTimeframeWeight(iv) ==
    /\ RLt(draw.tfWeight, tfWeightMap[iv])
    /\ Rescore([draw EXCEPT !.tfWeight = tfWeightMap[iv]])

NextScore ==
    \/ ScoreDrawn
    \/ RaiseDisplacement
    \/ RaiseWickRatio
    \/ \E iv \in Intervals : RaiseTimeframeWeight(iv)

SpecScore == InitScore /\ [][NextScore]_vars

(***************************************************************************)
(* Both tools on every interval of the schema                              *)
(***************************************************************************)
IntervalSingleArgs ==
    {[symbols |-> <<"BTCUSDT">>, limitType |-> "number", p |-> Params(iv, R(0), TRUE)] :
        iv \in Intervals}

IntervalBatchArgs ==
    {[symbols |-> ss, limitType |-> "number", p |-> Params(iv, R(0), TRUE)] :
        ss \in {<<"BTCUSDT">>, <<"BTCUSDT", "ETHUSDT">>}, iv \in Intervals}

IntervalOutcomes(fetchInterval) ==
    {[kind |-> "ok", klines |-> WithTs(s, intervalMsMap[fetchInterval])] : s \in BatchSeries}

NextInterval ==
    \/ \E a \in IntervalSingleArgs : CallSnapshot(a)
    \/ PrimaryFails
    \/ /\ pc = "awaitPrimary" /\ tool = "get_market_snapshot"
       /\ \E out \in IntervalOutcomes(normalizeInterval(args.p.interval)) :
            PrimaryAnswers(out)
    \/ /\ pc = "awaitLtf"
       /\ \E ltf \in LtfOutcomes(At(candles, hobs[hobIdx + 1].revisitIdx).ts,
                                 ltfMap[args.p.interval]) : LtfSettles(ltf)
    \/ \E a \in IntervalBatchArgs : CallSnapshots(a)
    \/ /\ pc = "awaitPrimary" /\ tool = "get_market_snapshots"
       /\ \E out \in IntervalOutcomes(normalizeInterval(args.p.interval)) :
            BatchSettles(out)

SpecInterval == Init /\ [][NextInterval]_vars

(***************************************************************************)
(* The structure detector on every short candle series                     *)
(***************************************************************************)
\* every series of one to MaxLen + 1 candles over the shapes; the 1m
\* interval has no lower timeframe, so a request is one fetch
StructureSeries == UNION {[1 .. n -> CandleShapes] : n \in 1 .. MaxLen + 1}

StructureArgs ==
    {[symbols |-> <<"BTCUSDT">>, limitType |-> "number", p |-> Params("1m", R(0), ex)] :
        ex \in BOOLEAN}

StructureOutcomes(fetchInterval) ==
    {[kind |-> "ok", klines |-> WithTs(s, intervalMsMap[fetchInterval])] :
        s \in StructureSeries}

NextStructure ==
    \/ \E a \in StructureArgs : CallSnapshot(a)
    \/ /\ pc = "awaitPrimary" /\ tool = "get_market_snapshot"
       /\ \E out \in StructureOutcomes(normalizeInterval(args.p.interval)) :
            PrimaryAnswers(out)

SpecStructure == Init /\ [][NextStructure]_vars

(***************************************************************************)
(* The indicators on series as long as their periods                       *)
(***************************************************************************)
\* candle m opens at the previous close and closes at cl[m]
FromCloses(cl) ==
    [m \in 1 .. Len(cl) |->
        LET prev == IF m = 1 THEN cl[1] ELSE cl[m - 1]
        IN  K(prev, Max2(prev, cl[m]), Min2(prev, cl[m]), cl[m], 1)]

\* len closes at level 3 with a step s1 at candle a and a step s2 at candle b
Stepped(len, a, s1, b, s2) ==
    [m \in 1 .. len |-> 3 + (IF m >= a THEN s1 ELSE 0) + (IF m >= b THEN s2 ELSE 0)]

\* lengths around the RSI and ATR period, steps early, midway or at the end
ShortCloses ==
    UNION {{Stepped(len, a, s1, b, s2) :
                a \in {2, 8}, b \in {PeriodRSI - 2, len},
                s1 \in {-1, 0, 1}, s2 \in {-1, 0, 1}} :
            len \in PeriodRSI - 1 .. PeriodRSI + 2}

IndicatorSeries == {FromCloses(cl) : cl \in ShortCloses}

IndicatorArgs ==
    {[symbols |-> <<"BTCUSDT">>, limitType |-> "number",
      p |-> [Params("1m", R(0), TRUE) EXCEPT !.emas = emas]] :
        emas \in {DefaultEmas, <<2, 3>>}}

IndicatorOutcomes(fetchInterval) ==
    {[kind |-> "ok", klines |-> WithTs(s, intervalMsMap[fetchInterval])] :
        s \in IndicatorSeries}

NextIndicators ==
    \/ \E a \in IndicatorArgs : CallSnapshot(a)
    \/ /\ pc = "awaitPrimary" /\ tool = "get_market_snapshot"
       /\ \E out \in IndicatorOutcomes(normalizeInterval(args.p.interval)) :
            PrimaryAnswers(out)

SpecIndicators == Init /\ [][NextIndicators]_vars

(***************************************************************************)
(* A server session: tool calls one after another                          *)
(***************************************************************************)
MaxCalls == 3

\* BINANCE_CACHE_TTL, in ticks of the clock
BINANCE_CACHE_TTL_MS == 2
MaxClock == 3

\* the parameter names of the cached tools, as Array.prototype.sort orders them
SortedNames == <<"compact", "interval", "limit", "symbol">>

\* an input object is the sequence of its <<name, value>> pairs, in the
\* order in which the caller wrote them
Has2(params, k) == \E i \in DOMAIN params : params[i][1] = k
ValueOr(params, k, d) ==
    IF Has2(params, k) THEN params[CHOOSE i \in DOMAIN params : params[i][1] = k][2] ELSE d

\* cacheKey: the tool name and the JSON text of the input with sorted keys
cacheKey(name, params) ==
    LET ks == SelectSeq(SortedNames, LAMBDA k : Has2(params, k))
    IN  [name |-> name, json |-> [i \in 1 .. Len(ks) |-> <<ks[i], ValueOr(params, ks[i], "")>>]]

\* faulty variant: the age of the entry is not tested
getCachedAnyAge(name, params) ==
    LET hit == {e \in cache : e.key = cacheKey(name, params)}
    IN  IF hit = {} THEN Null ELSE (CHOOSE e \in hit : TRUE).data

\* getCached: the data of an entry younger than the TTL, or null
getCached(name, params) ==
    LET hit == {e \in cache : /\ e.key = cacheKey(name, params)
                              /\ now - e.ts < BINANCE_CACHE_TTL_MS}
    IN  IF hit = {} THEN Null ELSE (CHOOSE e \in hit : TRUE).data

\* setCached: cache.set(key, { ts: Date.now(), data })
setCached(name, params, data) ==
    {e \in cache : e.key # cacheKey(name, params)}
        \cup {[key |-> cacheKey(name, params), ts |-> now, data |-> data]}

\* the handlers of the cached tools, from call to return: a cached answer
\* is returned before anything else; otherwise validateSymbol, the exchange
\* call op and, when it answers, the result built from it is stored and
\* returned; when it throws, the catch rethrows
CachedHandler(name, input, op, answer, data) ==
    LET cached == getCached(name, input)
        symbol == ValueOr(input, "symbol", "")
    IN  /\ pc = "idle"
        /\ pc' = "done"
        /\ tool' = name
        /\ args' = [NoArgs EXCEPT !.symbols = <<symbol>>, !.p = input]
        /\ IF cached # Null
           THEN /\ result' = cached
                /\ UNCHANGED <<fetches, responses, cache>>
           ELSE IF ~validateSymbol(symbol)
           THEN /\ result' = Thrown("validation")
                /\ UNCHANGED <<fetches, responses, cache>>
           ELSE /\ fetches' = Append(fetches, op)
                /\ responses' = Append(responses, answer)
                /\ IF answer.kind = "ok"
                   THEN /\ result' = data
                        /\ cache' = setCached(name, input, data)
                   ELSE /\ result' = Thrown("upstream")
                        /\ cache' = cache
        /\ UNCHANGED <<cur, candles, struct, hobs, hobIdx, ltfSeen, draw,
                       telemetryLog, env, limiter, now>>
        /\ history' = Append(history, CallRecord')

\* get_price.handler
GetPrice(input, answer) ==
    CachedHandler("get_price", input,
                  [op |-> "prices", symbol |-> ValueOr(input, "symbol", "")], answer,
                  [kind |-> "price", symbol |-> ValueOr(input, "symbol", ""),
                   price |-> answer.price, timestamp |-> now])

\* get_klines.handler
GetKlines(input, answer) ==
    LET klines == answer.klines
        n == Len(klines)
    IN  CachedHandler("get_klines", input,
                      Fetch(ValueOr(input, "symbol", ""), ValueOr(input, "interval", ""),
                            ValueOr(input, "limit", Null)), answer,
                      [kind |-> "klines", symbol |-> ValueOr(input, "symbol", ""),
                       interval |-> ValueOr(input, "interval", ""),
                       data |-> IF ValueOr(input, "compact", "false") = "true"
                                THEN SubSeq(klines, Max2(1, n - 99), n) ELSE klines,
                       timestamp |-> now])

\* Date.now() moves on before a tool call
Tick ==
    /\ pc = "idle"
    /\ now < MaxClock
    /\ now' = now + 1
    /\ UNCHANGED <<pc, tool, args, cur, candles, struct, hobs, hobIdx, fetches, responses,
                   ltfSeen, result, draw, telemetryLog, cache, history, env, limiter>>

\* the server takes up the next tool call: the locals of the finished
\* handler are gone, the cache and the telemetry file stay
NextRequest ==
    /\ pc = "done"
    /\ Len(history) < MaxCalls
    /\ pc' = "idle"
    /\ tool' = "none"
    /\ args' = NoArgs
    /\ cur' = 0
    /\ candles' = <<>>
    /\ struct' = NoStructure
    /\ hobs' = <<>>
    /\ hobIdx' = 0
    /\ fetches' = <<>>
    /\ responses' = <<>>
    /\ ltfSeen' = <<>>
    /\ result' = NoResult
    /\ UNCHANGED <<draw, telemetryLog, cache, history, env, limiter, now>>

\* binanceClient.prices rejects or answers one of two prices
PriceAnswers ==
    {[kind |-> "fail"], [kind |-> "ok", price |-> "100"], [kind |-> "ok", price |-> "101"]}

SessionArgs ==
    {[symbols |-> <<"BTCUSDT">>, limitType |-> "number",
      p |-> [Params("1h", R(0), TRUE) EXCEPT !.telemetry = t]] : t \in BOOLEAN}

SessionOutcomes(fetchInterval) ==
    {[kind |-> "ok", klines |-> WithTs(s, intervalMsMap[fetchInterval])] : s \in BatchSeries}

\* the lower-timeframe fetch rejects or answers one of the breaking paths
SessionLtfOutcomes(revisitTs, ltfInterval) ==
    {[kind |-> "fail", klines |-> <<>>]}
    \cup {[kind |-> "ok",
           klines |-> LtfKlines(path, revisitTs, intervalMsMap[ltfInterval], 0)] :
            path \in LtfBreakPaths}

NextSession ==
    \/ \E a \in SessionArgs : CallSnapshot(a)
    \/ PrimaryFails
    \/ /\ pc = "awaitPrimary" /\ tool = "get_market_snapshot"
       /\ \E out \in SessionOutcomes(normalizeInterval(args.p.interval)) :
            PrimaryAnswers(out)
    \/ /\ pc = "awaitLtf"
       /\ \E ltf \in SessionLtfOutcomes(At(candles, hobs[hobIdx + 1].revisitIdx).ts,
                                        ltfMap[args.p.interval]) : LtfSettles(ltf)
    \/ \E answer \in PriceAnswers : GetPrice(<<<<"symbol", "BTCUSDT">>>>, answer)
    \/ Tick
    \/ NextRequest

SpecSession == Init /\ [][NextSession]_vars

(***************************************************************************)
(* The cached tools over a running clock                                   *)
(***************************************************************************)
\* the same input written in either key order, and one with a bad symbol
PriceInputs ==
    {<<<<"symbol", "BTCUSDT">>>>,
     <<<<"symbol", "BTCUSDT">>, <<"compact", "true">>>>,
     <<<<"compact", "true">>, <<"symbol", "BTCUSDT">>>>,
     <<<<"symbol", "bad symbol">>>>}

KlinesInputs ==
    {<<<<"symbol", "BTCUSDT">>, <<"interval", "1h">>>>,
     <<<<"interval", "1h">>, <<"symbol", "BTCUSDT">>>>}

KlinesAnswers == {[kind |-> "fail"], [kind |-> "ok", klines |-> <<"k1", "k2">>]}

NextCache ==
    \/ \E input \in PriceInputs, answer \in PriceAnswers : GetPrice(input, answer)
    \/ \E input \in KlinesInputs, answer \in KlinesAnswers : GetKlines(input, answer)
    \/ Tick
    \/ NextRequest

SpecCache == Init /\ [][NextCache]_vars

(***************************************************************************)
(* Trading tools and the safety configuration                              *)
(***************************************************************************)
MaxOpenOrders == 5
ConfirmAbove == 3

\* config/binance.ts
isTestnetEnabled == env.BINANCE_TESTNET = "true"
getNetworkMode == IF isTestnetEnabled THEN "testnet" ELSE "mainnet"
allowMainnetTrading == env.ALLOW_MAINNET_TRADING # "false"
isMainnetTradingAllowed == allowMainnetTrading
requiresTestnetForTrading == ~isMainnetTradingAllowed \/ isTestnetEnabled

\* validateAndWarnMainnet: a console warning on mainnet, then the mode
validateAndWarnMainnet == getNetworkMode

\* the client is built once, on the testnet base when BINANCE_TESTNET is 'true'
ClientOp(name, params) == [op |-> name, network |-> getNetworkMode, params |-> params]

\* place_oco signs and posts the order itself, to the mainnet host
OcoPost(params) == [op |-> "orderList/oco", network |-> "mainnet", params |-> params]

\* the requests that place or cancel orders
OrderOps == {"order", "cancelOrder", "cancelOpenOrders", "orderList/oco",
             "futuresCancelAllOpenOrders"}

\* validateQuantity, validatePrice: a positive decimal string
validateQuantity(q) == q = "1"
validatePrice(p) == p = "1"

\* a handler that runs from call to return in one step: ops are the requests
\* it sent, res what it returned or threw
Handled(t, input, ops, res) ==
    /\ pc = "idle"
    /\ pc' = "done"
    /\ tool' = t
    /\ args' = input
    /\ fetches' = fetches \o ops
    /\ result' = res
    /\ UNCHANGED <<cur, candles, struct, hobs, hobIdx, responses, ltfSeen, draw,
                   telemetryLog, cache, env, limiter, now>>
    /\ history' = Append(history, CallRecord')

\* place_order.handler
PlaceOrder(input, accepted) ==
    LET networkMode == validateAndWarnMainnet
        orderParams ==
            IF input.type = "LIMIT" /\ input.price # ""
            THEN [symbol |-> input.symbol, side |-> input.side, type |-> input.type,
                  quantity |-> input.quantity, price |-> input.price, timeInForce |-> "GTC"]
            ELSE [symbol |-> input.symbol, side |-> input.side, type |-> input.type,
                  quantity |-> input.quantity]
    IN  IF ~validateSymbol(input.symbol) \/ ~validateQuantity(input.quantity)
        THEN Handled("place_order", input, <<>>, Thrown("validation"))
        ELSE IF input.type = "LIMIT" /\ input.price = ""
        THEN Handled("place_order", input, <<>>, Thrown("Price is required for LIMIT orders"))
        ELSE IF input.price # "" /\ ~validatePrice(input.price)
        THEN Handled("place_order", input, <<>>, Thrown("validation"))
        ELSE Handled("place_order", input, <<ClientOp("order", orderParams)>>,
                     IF accepted THEN [kind |-> "order", network |-> networkMode]
                     ELSE Thrown("upstream"))

\* cancel_order.handler
CancelOrder(input, accepted) ==
    LET networkMode == validateAndWarnMainnet
    IN  IF ~validateSymbol(input.symbol)
        THEN Handled("cancel_order", input, <<>>, Thrown("validation"))
        ELSE Handled("cancel_order", input, <<ClientOp("cancelOrder", input)>>,
                     IF accepted THEN [kind |-> "cancelled", network |-> networkMode]
                     ELSE Thrown("upstream"))

\* cancel_all_orders.handler
CancelAllOrders(input, accepted) ==
    LET networkMode == validateAndWarnMainnet
    IN  IF ~validateSymbol(input.symbol)
        THEN Handled("cancel_all_orders", input, <<>>, Thrown("validation"))
        ELSE Handled("cancel_all_orders", input, <<ClientOp("cancelOpenOrders", input)>>,
                     IF accepted THEN [kind |-> "cancelled", network |-> networkMode]
                     ELSE Thrown("upstream"))

\* place_oco.handler: no validation, no try/catch
PlaceOco(input, accepted) ==
    LET networkMode == validateAndWarnMainnet
    IN  Handled("place_oco", input, <<OcoPost(input)>>,
                IF accepted THEN [kind |-> "oco", network |-> networkMode]
                ELSE Thrown("upstream"))

\* cancel_all_futures_orders.handler: openOrders is what futuresOpenOrders
\* answered (-1: it rejected)
CancelAllFuturesOrders(input, openOrders, accepted) ==
    LET asked == ClientOp("futuresOpenOrders", [symbol |-> input.symbol])
    IN  IF ~validateSymbol(input.symbol)
        THEN Handled("cancel_all_futures_orders", input, <<>>, Thrown("validation"))
        ELSE IF openOrders < 0
        THEN Handled("cancel_all_futures_orders", input, <<asked>>, Thrown("upstream"))
        ELSE IF openOrders > ConfirmAbove /\ ~input.confirmRisk
        THEN Handled("cancel_all_futures_orders", input, <<asked>>,
                     Thrown("Set confirmRisk: true to proceed"))
        ELSE Handled("cancel_all_futures_orders", input,
                     <<asked, ClientOp("futuresCancelAllOpenOrders", [symbol |-> input.symbol])>>,
                     IF accepted
                     THEN [kind |-> "cancelledAll", cancelledCount |-> openOrders,
                           networkMode |-> getNetworkMode]
                     ELSE Thrown("upstream"))

\* validateRiskConfirmation: a risk that requires confirmation is refused
\* unless confirmRisk is set
validateRiskConfirmation(requiresConfirmation, confirmRisk) ==
    ~requiresConfirmation \/ confirmRisk

\* the three orders of a bracket, in the order in which they are sent
BracketOrders(input) ==
    LET slSide == IF input.side = "BUY" THEN "SELL" ELSE "BUY"
        entryParams ==
            IF input.entryPrice # ""
            THEN [symbol |-> input.symbol, side |-> input.side, type |-> "LIMIT",
                  quantity |-> input.quantity, price |-> input.entryPrice,
                  timeInForce |-> "GTC"]
            ELSE [symbol |-> input.symbol, side |-> input.side, type |-> "MARKET",
                  quantity |-> input.quantity]
        slParams == [symbol |-> input.symbol, side |-> slSide, type |-> "STOP_MARKET",
                     quantity |-> input.quantity, stopPrice |-> input.stopLossPrice]
        tpParams == [symbol |-> input.symbol, side |-> slSide, type |-> "TAKE_PROFIT_MARKET",
                     quantity |-> input.quantity, stopPrice |-> input.takeProfitPrice]
    IN  <<ClientOp("futuresOrder", entryParams), ClientOp("futuresOrder", slParams),
          ClientOp("futuresOrder", tpParams)>>

\* the three reads that precede the risk assessment
BracketReads(input) ==
    <<ClientOp("futuresPrices", [symbol |-> input.symbol]),
      ClientOp("futuresAccountInfo", <<>>),
      ClientOp("futuresPositionRisk", [symbol |-> input.symbol])>>

\* the answers to n requests of which the first ok succeeded
Answers(n, ok, good) ==
    [k \in 1 .. n |-> IF k <= ok THEN [kind |-> good] ELSE [kind |-> "fail"]]

\* place_futures_bracket_order.handler: read of the exchange answers to the
\* first reads requests, placed of them to the first orders; the first
\* request that fails throws into the catch, which rethrows
PlaceFuturesBracketOrder(input, reads, placed) ==
    LET sentReads == SubSeq(BracketReads(input), 1, Min2(reads + 1, 3))
        sentOrders == SubSeq(BracketOrders(input), 1, Min2(placed + 1, 3))
        outcome ==
            IF ~validateSymbol(input.symbol)
            THEN [ops |-> <<>>, answers |-> <<>>, res |-> Thrown("validation")]
            ELSE IF reads < 3
            THEN [ops |-> sentReads, answers |-> Answers(Len(sentReads), reads, "ok"),
                  res |-> Thrown("upstream")]
            ELSE IF ~validateRiskConfirmation(TRUE, input.confirmRisk)
            THEN [ops |-> sentReads, answers |-> Answers(3, 3, "ok"),
                  res |-> Thrown("confirmation required")]
            ELSE [ops |-> sentReads \o sentOrders,
                  answers |-> Answers(3, 3, "ok") \o Answers(Len(sentOrders), placed, "placed"),
                  res |-> IF placed = 3
                          THEN [kind |-> "bracket", networkMode |-> getNetworkMode]
                          ELSE Thrown("upstream")]
    IN  /\ pc = "idle"
        /\ pc' = "done"
        /\ tool' = "place_futures_bracket_order"
        /\ args' = input
        /\ fetches' = fetches \o outcome.ops
        /\ responses' = responses \o outcome.answers
        /\ result' = outcome.res
        /\ UNCHANGED <<cur, candles, struct, hobs, hobIdx, ltfSeen, draw,
                       telemetryLog, cache, env, limiter, now>>
        /\ history' = Append(history, CallRecord')

TradingSymbols == {"BTCUSDT", "bad symbol"}

PlaceOrderInputs ==
    [symbol : TradingSymbols, side : {"BUY", "SELL"}, type : {"MARKET", "LIMIT"},
     quantity : {"0", "1"}, price : {"", "0", "1"}]

CancelOrderInputs == [symbol : TradingSymbols, orderId : {7}]

CancelAllInputs == [symbol : TradingSymbols]

PlaceOcoInputs ==
    [symbol : {"BTCUSDT"}, side : {"BUY", "SELL"}, quantity : {"1"}, abovePrice : {"3"},
     belowPrice : {"1"}, belowStopPrice : {"2"}]

CancelAllFuturesInputs == [symbol : TradingSymbols, confirmRisk : BOOLEAN]

BracketInputs ==
    [symbol : TradingSymbols, side : {"BUY", "SELL"}, quantity : {"1"}, entryPrice : {"", "2"},
     stopLossPrice : {"1"}, takeProfitPrice : {"3"}, confirmRisk : BOOLEAN]

EnvValues == {"unset", "true", "false"}

InitTrading ==
    /\ pc = "idle"
    /\ tool = "none"
    /\ args = NoArgs
    /\ cur = 0
    /\ candles = <<>>
    /\ struct = NoStructure
    /\ hobs = <<>>
    /\ hobIdx = 0
    /\ fetches = <<>>
    /\ responses = <<>>
    /\ ltfSeen = <<>>
    /\ result = NoResult
    /\ draw = NoDraw
    /\ telemetryLog = <<>>
    /\ cache = {}
    /\ history = <<>>
    /\ env \in [BINANCE_TESTNET : EnvValues, ALLOW_MAINNET_TRADING : EnvValues]
    /\ limiter = NoLimiter
    /\ now = 0

NextTrading ==
    \/ \E input \in PlaceOrderInputs, accepted \in BOOLEAN : PlaceOrder(input, accepted)
    \/ \E input \in CancelOrderInputs, accepted \in BOOLEAN : CancelOrder(input, accepted)
    \/ \E input \in CancelAllInputs, accepted \in BOOLEAN : CancelAllOrders(input, accepted)
    \/ \E input \in PlaceOcoInputs, accepted \in BOOLEAN : PlaceOco(input, accepted)
    \/ \E input \in CancelAllFuturesInputs, openOrders \in -1 .. MaxOpenOrders,
          accepted \in BOOLEAN : CancelAllFuturesOrders(input, openOrders, accepted)
    \/ \E input \in BracketInputs, reads \in 0 .. 3, placed \in 0 .. 3 :
          PlaceFuturesBracketOrder(input, reads, placed)

SpecTrading == InitTrading /\ [][NextTrading]_vars

(***************************************************************************)
(* The concurrency limiter of the tool-call handler                        *)
(***************************************************************************)
MaxRequests == 4
MaxSlots == 2

\* requests are numbered in their order of arrival
Arrived == 1 .. Len(limiter.req)

\* the requests that have acquired a slot and not released it
Holders == {r \in Arrived : limiter.req[r].acquired = 1 /\ limiter.req[r].released = 0}

\* faulty variant: the counter is left as it was
releaseKeepsCount(l) ==
    IF l.queue = <<>> THEN l
    ELSE [l EXCEPT !.queue = Tail(l.queue),
                   !.req[Head(l.queue)].state = "woken",
                   !.woken = Append(l.woken, Head(l.queue))]

\* release: the counter goes down and the oldest waiter's promise is
\* resolved; the waiter itself runs on later
release(l) ==
    LET dec == [l EXCEPT !.current = Max2(0, l.current - 1)]
    IN  IF l.queue = <<>> THEN dec
        ELSE [dec EXCEPT !.queue = Tail(l.queue),
                         !.req[Head(l.queue)].state = "woken",
                         !.woken = Append(l.woken, Head(l.queue))]

\* the handler of CallToolRequest up to its first suspension: an unknown
\* tool throws before the try; otherwise acquire takes a slot at once or
\* pushes its resolve function on the queue.  A request is read from
\* standard input in a task of its own, and a task starts only when the
\* promise jobs of the task before it have run, the continuation of a
\* resolved waiter among them.
Arrive(known) ==
    /\ Len(limiter.req) < MaxRequests
    /\ \A w \in Arrived : limiter.req[w].state # "woken"
    /\ LET r == Len(limiter.req) + 1
       IN  limiter' =
             IF ~known
             THEN [limiter EXCEPT !.req = Append(@, [state |-> "unknown tool", acquired |-> 0,
                                                     released |-> 0])]
             ELSE IF limiter.current < limiter.max
             THEN [limiter EXCEPT !.current = @ + 1,
                                  !.req = Append(@, [state |-> "running", acquired |-> 1,
                                                     released |-> 0])]
             ELSE [limiter EXCEPT !.queue = Append(@, r),
                                  !.enqueued = Append(@, r),
                                  !.req = Append(@, [state |-> "queued", acquired |-> 0,
                                                     released |-> 0])]
    /\ UNCHANGED <<pc, tool, args, cur, candles, struct, hobs, hobIdx, fetches, responses,
                   ltfSeen, result, draw, telemetryLog, cache, history, env, now>>

\* a woken waiter runs on: the rest of acquire, then the tool handler
Resume(r) ==
    /\ r \in Arrived
    /\ limiter.req[r].state = "woken"
    /\ limiter' = [limiter EXCEPT !.current = @ + 1,
                                  !.req[r].state = "running",
                                  !.req[r].acquired = @ + 1]
    /\ UNCHANGED <<pc, tool, args, cur, candles, struct, hobs, hobIdx, fetches, responses,
                   ltfSeen, result, draw, telemetryLog, cache, history, env, now>>

\* the tool handler returns or throws; the finally block releases
Finish(r, threw) ==
    /\ r \in Arrived
    /\ limiter.req[r].state = "running"
    /\ limiter' = release([limiter EXCEPT
                              !.req[r].state = IF threw THEN "threw" ELSE "returned",
                              !.req[r].released = @ + 1])
    /\ UNCHANGED <<pc, tool, args, cur, candles, struct, hobs, hobIdx, fetches, responses,
                   ltfSeen, result, draw, telemetryLog, cache, history, env, now>>

\* MCP_CONCURRENCY is read once, at construction
InitLimiter ==
    /\ pc = "idle"
    /\ tool = "none"
    /\ args = NoArgs
    /\ cur = 0
    /\ candles = <<>>
    /\ struct = NoStructure
    /\ hobs = <<>>
    /\ hobIdx = 0
    /\ fetches = <<>>
    /\ responses = <<>>
    /\ ltfSeen = <<>>
    /\ result = NoResult
    /\ draw = NoDraw
    /\ telemetryLog = <<>>
    /\ cache = {}
    /\ history = <<>>
    /\ env = NoEnv
    /\ now = 0
    /\ \E m \in 0 .. MaxSlots : limiter = [NoLimiter EXCEPT !.max = m]

NextLimiter ==
    \/ \E known \in BOOLEAN : Arrive(known)
    \/ \E r \in 1 .. MaxRequests : Resume(r)
    \/ \E r \in 1 .. MaxRequests, threw \in BOOLEAN : Finish(r, threw)

SpecLimiter == InitLimiter /\ [][NextLimiter]_vars

\* every running handler finishes, and every resolved waiter runs on
SpecLimiterFair ==
    /\ SpecLimiter
    /\ \A r \in 1 .. MaxRequests :
         /\ WF_vars(Resume(r))
         /\ WF_vars(\E threw \in BOOLEAN : Finish(r, threw))

(***************************************************************************)
(* Properties                                                              *)
(***************************************************************************)
Range(s) == {s[i] : i \in 1 .. Len(s)}

\* a >= b for two fractions with positive denominators
Geq(a, b) == a[1] * b[2] >= b[1] * a[2]

\* get_market_snapshot has returned a snapshot
SingleReturned ==
    pc = "done" /\ tool = "get_market_snapshot" /\ result.kind = "snapshot"

\* get_market_snapshots has returned its array
BatchReturned ==
    pc = "done" /\ tool = "get_market_snapshots" /\ result.kind = "batch"

FlagCount(h) ==
    Cardinality({f \in {"bos", "choch", "sfp", "fvgMitigation"} : h.ltfConfirmations[f]})

\* the other filters let the block through
OtherFiltersPermit(h, p) ==
    /\ ~p.requireLTFConfirmations \/ FlagCount(h) >= 1
    /\ Geq(h.qualityScore, p.minQuality)
    /\ ~p.onlyFullyMitigated \/ h.fullyMitigated
    /\ ~p.onlyVeryStrong \/ h.isVeryStrong

\* C1: in get_market_snapshot a block of the unfiltered set is returned in
\* hiddenOrderBlocks if and only if it has a lower-timeframe flag or none is
\* required, its qualityScore is at least minQuality, it is not invalidated
\* or invalidated blocks are not excluded, it is fully mitigated or that is
\* not required, and it is very-strong or that is not required.
C1_ReturnedIffFiveConditions ==
    SingleReturned =>
        \A i \in 1 .. Len(hobs) :
            (hobs[i] \in Range(result.hiddenOrderBlocks))
            <=> /\ OtherFiltersPermit(hobs[i], args.p)
                /\ ~args.p.excludeInvalidated \/ ~hobs[i].invalidated

\* a block that only the very-strong requirement keeps out of the result
C1_Witness ==
    /\ SingleReturned
    /\ Len(hobs) = 1
    /\ result.hiddenOrderBlocks = <<>>
    /\ args.p.onlyVeryStrong /\ ~hobs[1].isVeryStrong
    /\ args.p.requireLTFConfirmations /\ FlagCount(hobs[1]) >= 1
    /\ Geq(hobs[1].qualityScore, args.p.minQuality)
    /\ args.p.excludeInvalidated /\ ~hobs[1].invalidated
    /\ args.p.onlyFullyMitigated /\ hobs[1].fullyMitigated

\* the order blocks whose first revisit closes beyond the adverse boundary
\* of the body, told from the candles
AdverseAt(ob, i) ==
    IF ob.type = "bull"
    THEN At(candles, i).close < (IF ob.open < ob.close THEN ob.open ELSE ob.close)
    ELSE At(candles, i).close > (IF ob.open > ob.close THEN ob.open ELSE ob.close)

Touches(ob, i) ==
    /\ At(candles, i).high >= (IF ob.open < ob.close THEN ob.open ELSE ob.close)
    /\ At(candles, i).low <= (IF ob.open > ob.close THEN ob.open ELSE ob.close)

IsRevisit(ob, i) ==
    /\ i \in ob.idx + 1 .. Len(candles) - 1
    /\ Touches(ob, i)
    /\ \A k \in ob.idx + 1 .. i - 1 : ~Touches(ob, k)

RevisitClosesAdverse(ob) ==
    \E i \in ob.idx + 1 .. Len(candles) - 1 : IsRevisit(ob, i) /\ AdverseAt(ob, i)

ClosesAdverseLater(ob) ==
    \E i \in ob.idx + 1 .. Len(candles) - 1 :
        IsRevisit(ob, i) /\ \E j \in i + 1 .. Len(candles) - 1 : AdverseAt(ob, j)

\* C2 (as the code has it): an order block whose revisit candle closes
\* beyond the adverse boundary of the body leaves no hidden order block at
\* all, so nothing of it is returned whatever excludeInvalidated is.  A
\* hidden order block has invalidated = true exactly when a candle after
\* the revisit closes beyond that boundary; it is then absent from the
\* result when excludeInvalidated is true and present when it is false and
\* the other filters permit.
C2_RevisitBreachLeavesNoBlock ==
    SingleReturned =>
        \A b \in 1 .. Len(struct.orderBlocks) :
            LET ob == struct.orderBlocks[b]
                mine == {h \in Range(hobs) : h.idx = ob.idx}
            IN  /\ RevisitClosesAdverse(ob) => mine = {}
                /\ \A h \in mine :
                    /\ h.invalidated <=> ClosesAdverseLater(ob)
                    /\ h.invalidated /\ args.p.excludeInvalidated
                          => h \notin Range(result.hiddenOrderBlocks)
                    /\ h.invalidated /\ ~args.p.excludeInvalidated
                          /\ OtherFiltersPermit(h, args.p)
                          => h \in Range(result.hiddenOrderBlocks)

\* C2 as stated: the block whose revisit closes beyond the adverse boundary
\* yields a hidden order block with invalidated = true, absent when
\* excludeInvalidated is true and present when it is false and minQuality
\* is 0.
C2_AsStated ==
    SingleReturned =>
        \A b \in 1 .. Len(struct.orderBlocks) :
            LET ob == struct.orderBlocks[b]
                returned == {h \in Range(result.hiddenOrderBlocks) : h.idx = ob.idx}
            IN  RevisitClosesAdverse(ob) =>
                    /\ args.p.excludeInvalidated => returned = {}
                    /\ ~args.p.excludeInvalidated /\ args.p.minQuality = R(0)
                          => \E h \in returned : h.invalidated

\* a revisit that closes through the body, asked for with invalidated
\* blocks included and no quality bar
C2_Witness ==
    /\ SingleReturned
    /\ \E b \in 1 .. Len(struct.orderBlocks) : RevisitClosesAdverse(struct.orderBlocks[b])
    /\ ~args.p.excludeInvalidated
    /\ args.p.minQuality = R(0)
    /\ result.hiddenOrderBlocks = <<>>

\* C3: no hidden order block computed by get_market_snapshot has
\* invalidated and fullyMitigated both true, in whatever order mitigating
\* and invalidating candles follow the revisit.
C3_NeverInvalidatedAndMitigated ==
    /\ \A i \in 1 .. Len(hobs) :
        "invalidated" \in DOMAIN hobs[i] => ~(hobs[i].invalidated /\ hobs[i].fullyMitigated)
    /\ SingleReturned =>
        \A h \in Range(result.hiddenOrderBlocks) : ~(h.invalidated /\ h.fullyMitigated)

\* a body clear of the zone on the favourable side
ClearsAt(h, i) ==
    LET lo == IF h.zone.open < h.zone.close THEN h.zone.open ELSE h.zone.close
        hi == IF h.zone.open > h.zone.close THEN h.zone.open ELSE h.zone.close
        k == At(candles, i)
    IN  IF h.type = "bull" THEN k.open > hi /\ k.close > hi
        ELSE k.open < lo /\ k.close < lo

\* a block that a candle mitigated before a later candle invalidated it
C3_Witness ==
    /\ pc = "done"
    /\ \E i \in 1 .. Len(hobs) :
        /\ "invalidated" \in DOMAIN hobs[i]
        /\ hobs[i].invalidated
        /\ \E j1 \in hobs[i].revisitIdx + 1 .. Len(candles) - 1 :
            /\ ClearsAt(hobs[i], j1)
            /\ \E j2 \in j1 + 1 .. Len(candles) - 1 : AdverseAt(hobs[i].zone @@ [type |-> hobs[i].type], j2)

\* what get_market_snapshot may return as hiddenOrderBlocks for candles c
SingleHiddenOrderBlocks(c, p) ==
    LET st == St(c, p)
        found == st.hiddenOrderBlocks
    IN  IF found = <<>> THEN {<<>>}
        ELSE IF ltfMap[p.interval] = "none"
        THEN {Filtered(<<EnrichHob(c, st, found[1], NoLtf, p)>>, p)}
        ELSE {Filtered(<<EnrichHob(c, st, found[1], ltf, p)>>, p) :
                ltf \in LtfOutcomes(At(c, found[1].revisitIdx).ts, ltfMap[p.interval])}

\* C4: each snapshot of a batch carries the hiddenOrderBlocks that
\* get_market_snapshot returns for the same candles and parameters (under
\* some lower-timeframe response): enriched and filtered alike.
C4_BatchEqualsSingle ==
    BatchReturned =>
        \A i \in 1 .. Len(result.results) :
            result.results[i].kind = "snapshot" =>
                result.results[i].hiddenOrderBlocks
                    \in SingleHiddenOrderBlocks(responses[i].klines, args.p)

\* every slot pushed so far is the one its own symbol and response call for
SlotsSoFar ==
    /\ Len(result.results) = cur
    /\ Len(responses) = cur
    /\ cur <= Len(args.symbols)
    /\ \A i \in 1 .. cur :
        LET e == result.results[i]
            out == responses[i]
        IN  /\ e.symbol = args.symbols[i]
            /\ out.kind # "ok" => e.kind = "error" /\ e.error # "no_candles"
            /\ out.kind = "ok" /\ out.klines = <<>>
                  => e = [kind |-> "error", symbol |-> args.symbols[i], error |-> "no_candles"]
            /\ out.kind = "ok" /\ out.klines # <<>>
                  => /\ e.kind = "snapshot"
                     /\ e = BatchSnapshot(args.symbols[i], args.p, St(out.klines, args.p))

\* C5: a batch over s1..sk returns exactly k entries in input order; zero
\* candles give {symbol, error: "no_candles"}, a failed fetch or
\* computation gives an error entry, every other symbol a snapshot; no
\* failure aborts the batch or changes another symbol's slot.
C5_BatchIsolation ==
    tool = "get_market_snapshots" /\ result.kind = "batch" =>
        /\ SlotsSoFar
        /\ pc = "done" => cur = Len(args.symbols)
        /\ pc # "done" => cur < Len(args.symbols)

\* a batch of two whose first fetch failed and whose second slot is a snapshot
C5_Witness ==
    /\ BatchReturned
    /\ Len(args.symbols) = 2
    /\ responses[1].kind = "fail"
    /\ result.results[1].kind = "error"
    /\ result.results[2].kind = "snapshot"

\* the unfiltered set filtered with onlyVeryStrong as given
WithOnlyVeryStrong(b) == Filtered(hobs, [args.p EXCEPT !.onlyVeryStrong = b])

\* C6: for the same candles and otherwise equal parameters, what is returned
\* with onlyVeryStrong = true is a subset of what is returned with
\* onlyVeryStrong = false, which is a subset of the unfiltered set.
C6_FilterSubsets ==
    SingleReturned =>
        /\ Range(WithOnlyVeryStrong(TRUE)) \subseteq Range(WithOnlyVeryStrong(FALSE))
        /\ Range(WithOnlyVeryStrong(FALSE)) \subseteq Range(hobs)
        /\ result.hiddenOrderBlocks = WithOnlyVeryStrong(args.p.onlyVeryStrong)

\* a block returned without the very-strong requirement and not with it
C6_Witness ==
    /\ SingleReturned
    /\ WithOnlyVeryStrong(TRUE) = <<>>
    /\ WithOnlyVeryStrong(FALSE) # <<>>

ConfluenceCount(h) ==
    Cardinality({f \in {"vwap", "hvn", "fvgNear"} : h.components[f]})
    + (IF Geq(h.components.liqScore, <<1, 2>>) THEN 1 ELSE 0)

\* the very-strong conditions read on the block's own fields
VeryStrongByFields(h, p) ==
    /\ ~h.invalidated
    /\ Geq(h.qualityScore, p.veryStrongMinQuality)
    /\ Geq(h.components.tfWeight, <<13, 10>>)
    /\ FlagCount(h) >= 2
    /\ ConfluenceCount(h) >= 2

\* C7: strengthLabel is 'very-strong' exactly when the block is not
\* invalidated, its score is at least veryStrongMinQuality, the timeframe
\* weight is at least 1.3, at least two lower-timeframe flags and at least
\* two confluences hold; otherwise 'strong' exactly when the score is at
\* least minQuality; otherwise 'normal'; isVeryStrong is true exactly when
\* the label is 'very-strong'.
C7_LabelByScore ==
    SingleReturned =>
        \A h \in Range(hobs) :
            LET vs == VeryStrongByFields(h, args.p)
                st == Geq(h.qualityScore, args.p.minQuality)
            IN  /\ h.strengthLabel = "very-strong" <=> vs
                /\ h.strengthLabel = "strong" <=> ~vs /\ st
                /\ h.strengthLabel = "normal" <=> ~vs /\ ~st
                /\ h.isVeryStrong <=> h.strengthLabel = "very-strong"

\* a component of the grid in units of 1 / Grid
Units(x) == x[1] * (Grid \div x[2])

\* 2000 * Grid times the formula's value, in integers: the weighted sum in
\* units of 1 / (100 * Grid) times the weight in units of 1 / 20
FormulaScaled(comp) ==
    (35 * Units(comp.dispScore) + 15 * Units(comp.wickRatio)
     + 15 * Grid * (IF comp.fvgNear THEN 1 ELSE 0) + 15 * Units(comp.liqScore)
     + 10 * Grid * (IF comp.vwap THEN 1 ELSE 0) + 10 * Grid * (IF comp.hvn THEN 1 ELSE 0))
    * (comp.tfWeight[1] * (20 \div comp.tfWeight[2]))

\* q is the formula's value rounded to a multiple of 0.001
RoundedFormula(q, comp) ==
    LET diff == q[1] * 2000 * Grid - FormulaScaled(comp) * q[2]
    IN  /\ 1000 % q[2] = 0
        /\ diff <= Grid * q[2]
        /\ -diff <= Grid * q[2]

\* C8 (as the code has it): the reported qualityScore is
\* (0.35 d + 0.15 w + 0.15 f + 0.15 l + 0.10 v + 0.10 h) * timeframeWeight
\* rounded to three decimals, and it does not decrease when displacement,
\* wickRatio or timeframeWeight is raised with the other components fixed.
C8_RoundedAndMonotone ==
    [][/\ pc' = "scored" => RoundedFormula(hobs'[1].qualityScore, draw')
       /\ pc = "scored" /\ pc' = "scored" =>
            Geq(hobs'[1].qualityScore, hobs[1].qualityScore)]_vars

\* C8 as stated: qualityScore equals the formula's value.
C8_AsStated ==
    pc = "scored" =>
        hobs[1].qualityScore[1] * 2000 * Grid = FormulaScaled(draw) * hobs[1].qualityScore[2]

\* full displacement alone on the 2d weight: 0.4375 is reported as 0.438
C8_Witness ==
    /\ pc = "scored"
    /\ draw = [dispScore |-> <<1, 1>>, wickRatio |-> <<0, 1>>, fvgNear |-> FALSE,
               liqScore |-> <<0, 1>>, vwap |-> FALSE, hvn |-> FALSE, tfWeight |-> <<5, 4>>]
    /\ hobs[1].qualityScore = <<219, 500>>

\* the lower-timeframe candles of answer ltf inside the window of block h
InWindow(ltf, h) ==
    LET from == At(candles, h.revisitIdx).ts
    IN  {k \in 1 .. Len(ltf.klines) :
            /\ ltf.klines[k].ts >= from
            /\ ltf.klines[k].ts <= from + 3 * intervalMsMap[args.p.interval]}

\* C9: when the lower-timeframe fetch fails or its answer cannot be used,
\* or fewer than 5 of its candles fall inside the confirmation window, the
\* four flags of that block are all false and get_market_snapshot still
\* returns a snapshot.
C9_LtfBestEffort ==
    /\ \A i \in 1 .. Len(ltfSeen) :
        ltfSeen[i].kind # "ok" \/ Cardinality(InWindow(ltfSeen[i], hobs[i])) < 5
            => FlagCount(hobs[i]) = 0
    /\ pc = "done" /\ ltfSeen # <<>> => result.kind = "snapshot"

\* a snapshot returned after the lower-timeframe fetch failed
C9_Witness ==
    /\ SingleReturned
    /\ Len(ltfSeen) = 1
    /\ ltfSeen[1].kind = "fail"
    /\ FlagCount(hobs[1]) = 0

\* C10: no call to the candle source is made for a request that fails
\* input validation nor, in a batch, for a symbol that fails it.
C10_NoFetchBeforeValidation ==
    \A i \in 1 .. Len(fetches) :
        /\ validateInput([interval |-> args.p.interval, limitType |-> args.limitType])
        /\ validateSymbol(fetches[i].symbol)


\* the base interval the candle source supports for a requested interval
BaseInterval(iv) ==
    CASE iv \in {"2d", "4d"} -> "1d"
      [] iv = "2w" -> "1w"
      [] OTHER -> iv

\* the primary fetches issued so far: every fetch of a batch, the first
\* fetch of a single-symbol request
PrimaryFetches ==
    IF tool = "get_market_snapshots" THEN Range(fetches)
    ELSE IF fetches = <<>> THEN {} ELSE {fetches[1]}

\* C11: every primary candle fetch, single or batch, is issued with 1d for
\* a requested 2d or 4d, with 1w for a requested 2w, and with the requested
\* interval otherwise.
C11_FetchOnBaseInterval ==
    \A f \in PrimaryFetches : f.interval = BaseInterval(args.p.interval)

\* a batch on the two-week interval has fetched both symbols on 1w
C11_Witness ==
    /\ tool = "get_market_snapshots"
    /\ args.p.interval = "2w"
    /\ Len(fetches) = 2
    /\ \A i \in 1 .. 2 : fetches[i].interval = "1w"
    /\ pc = "done"


\* C12: every detected pivot lies strictly inside the candle array and is a
\* strict three-candle extremum of its kind; with fewer than three candles
\* no pivot is detected; the pivot loop reads no index outside the array.
C12_PivotsInteriorAndStrict ==
    SingleReturned =>
        LET n == Len(candles)
        IN  /\ \A k \in 1 .. Len(struct.pivots) :
                 LET p == struct.pivots[k]
                     i == p.idx
                 IN  /\ 0 < i /\ i < n - 1
                     /\ p.type \in {"H", "L"}
                     /\ p.type = "H" =>
                          /\ At(candles, i).high > At(candles, i - 1).high
                          /\ At(candles, i).high > At(candles, i + 1).high
                     /\ p.type = "L" =>
                          /\ At(candles, i).low < At(candles, i - 1).low
                          /\ At(candles, i).low < At(candles, i + 1).low
            /\ n < 3 => struct.pivots = <<>>
            /\ PivotReads(candles) \subseteq 0 .. n - 1

\* four candles with a High pivot at index 1 and a Low pivot at index 2
C12_Witness ==
    /\ SingleReturned
    /\ Len(candles) = 4
    /\ \E k \in 1 .. Len(struct.pivots) :
         struct.pivots[k].type = "H" /\ struct.pivots[k].idx = 1
    /\ \E k \in 1 .. Len(struct.pivots) :
         struct.pivots[k].type = "L" /\ struct.pivots[k].idx = 2


\* the last close is above the highest high of all earlier candles
Breakout ==
    /\ Len(candles) >= 3
    /\ \A i \in 0 .. Len(candles) - 2 :
         At(candles, Len(candles) - 1).close > At(candles, i).high

\* the candles with a bearish body among the last min(n - 1, 60), the final
\* two left out
BearishBeforeBreak ==
    LET n == Len(candles)
    IN  {i \in n - Min2(n - 1, 60) .. n - 3 : At(candles, i).open > At(candles, i).close}

\* C13: after a breakout of the last close above every earlier high the
\* snapshot has bos = 'up'; if a candle with a bearish body lies among the
\* last min(n - 1, 60) candles before the final two, orderBlocks is exactly
\* one bull block, at the latest such candle, so with an index below n - 2.
C13_BreakoutBullBlock ==
    SingleReturned /\ Breakout =>
        /\ result.bos = "up"
        /\ BearishBeforeBreak # {} =>
             /\ Len(result.orderBlocks) = 1
             /\ result.orderBlocks[1].type = "bull"
             /\ result.orderBlocks[1].idx = MaxOf(BearishBeforeBreak)
             /\ result.orderBlocks[1].idx < Len(candles) - 2

\* C13 as stated: every breakout leaves a bull block with an index below
\* n - 2.
C13_AsStated ==
    SingleReturned /\ Breakout =>
        /\ result.bos = "up"
        /\ \E k \in 1 .. Len(result.orderBlocks) :
             /\ result.orderBlocks[k].type = "bull"
             /\ result.orderBlocks[k].idx < Len(candles) - 2

\* a four-candle breakout whose bull block is the candle at index 1
C13_Witness ==
    /\ SingleReturned /\ Breakout
    /\ Len(candles) = 4
    /\ result.bos = "up"
    /\ Len(result.orderBlocks) = 1
    /\ result.orderBlocks[1].type = "bull"
    /\ result.orderBlocks[1].idx = 1


\* C14: with at least 15 candles RSI is 100 when avgLoss is 0 and avgGain
\* is positive, 0 whenever avgGain is 0, and 100 - 100 / (1 + avgGain /
\* avgLoss) otherwise, avgGain and avgLoss being the Wilder averages of the
\* gains and losses over 14 periods.
C14_RsiByAverages ==
    SingleReturned /\ Len(candles) >= 15 =>
        LET avgGain == AvgGain(candles)
            avgLoss == AvgLoss(candles)
        IN  /\ avgGain # Null /\ avgLoss # Null /\ result.rsi # Null
            /\ avgLoss[1] = 0 /\ avgGain[1] > 0 => result.rsi = R(100)
            /\ avgGain[1] = 0 => result.rsi = R(0)
            /\ avgGain[1] > 0 /\ avgLoss[1] > 0 =>
                 result.rsi = RSub(R(100), RDiv(R(100), RAdd(R(1), RDiv(avgGain, avgLoss))))

\* C14 with the motionless series left to the code's first branch: RSI is
\* 100 whenever avgLoss is 0
C14_RsiLossFirst ==
    SingleReturned /\ Len(candles) >= 15 =>
        LET avgGain == AvgGain(candles)
            avgLoss == AvgLoss(candles)
        IN  /\ avgGain # Null /\ avgLoss # Null /\ result.rsi # Null
            /\ avgLoss[1] = 0 => result.rsi = R(100)
            /\ avgGain[1] = 0 /\ avgLoss[1] > 0 => result.rsi = R(0)
            /\ avgGain[1] > 0 /\ avgLoss[1] > 0 =>
                 result.rsi = RSub(R(100), RDiv(R(100), RAdd(R(1), RDiv(avgGain, avgLoss))))


\* get_market_snapshot has finished on a non-empty candle array
SingleFinishedOnCandles ==
    pc = "done" /\ tool = "get_market_snapshot" /\ candles # <<>>

\* the indicators other than BOS that lack history are null or empty
ShortHistoryIsNull ==
    LET n == Len(candles)
    IN  /\ n < 50 => result.sma50 = Null
        /\ n < 200 => result.sma200 = Null /\ result.trend = "none"
        /\ \A k \in 1 .. Len(args.p.emas) : n < args.p.emas[k] => result.ema[k] = Null
        /\ n < args.p.atrPeriod => result.atr = Null
        /\ n < 15 => result.rsi = Null
        /\ n < 3 => result.pivots = <<>>

\* C15: on every non-empty candle array get_market_snapshot returns a
\* snapshot, in which sma50 (n < 50), sma200 and trend (n < 200), EMA(p)
\* (n < p), ATR (n < atrPeriod), RSI (n < 15) are null, the pivots are empty
\* (n < 3) and BOS is null when there is a single candle.
C15_ShortHistoryDegrades ==
    SingleFinishedOnCandles =>
        /\ result.kind = "snapshot"
        /\ ShortHistoryIsNull
        /\ Len(candles) = 1 => result.bos = "none"

\* C15 without its BOS clause: everything but BOS degrades to null or empty
C15_DegradesExceptBos ==
    SingleFinishedOnCandles => result.kind = "snapshot" /\ ShortHistoryIsNull

\* what the snapshot of a single candle reports as BOS
C15_SingleCandleBosUp ==
    SingleFinishedOnCandles /\ Len(candles) = 1 => result.bos = "up"


\* two finished get_market_snapshot calls were given the same symbol, the
\* same parameters (the telemetry flag apart) and the same candle answers
SameInputs(a, b) ==
    /\ a.tool = "get_market_snapshot" /\ b.tool = "get_market_snapshot"
    /\ a.args.symbols = b.args.symbols
    /\ [a.args.p EXCEPT !.telemetry = FALSE] = [b.args.p EXCEPT !.telemetry = FALSE]
    /\ a.responses = b.responses
    /\ a.ltfSeen = b.ltfSeen

\* equal inputs gave equal answers, over the calls finished so far
EqualInputsEqualSnapshots(h) ==
    \A i \in 1 .. Len(h), j \in 1 .. Len(h) : SameInputs(h[i], h[j]) => h[i].result = h[j].result

\* C16: get_market_snapshot answers equal inputs with equal snapshots
\* whatever ran in between, never touches the response cache, asks the
\* exchange client for candles only, and appends to the telemetry file only
\* in the step that returns the snapshot of a request with telemetry set.
C16_PureExceptTelemetry ==
    [][/\ EqualInputsEqualSnapshots(history')
       /\ tool' = "get_market_snapshot" =>
            /\ cache' = cache
            /\ \A k \in 1 .. Len(fetches') : fetches'[k].op = "candles"
            /\ telemetryLog' # telemetryLog =>
                 args'.p.telemetry /\ pc' = "done" /\ result'.kind = "snapshot"]_vars

C16_Witness ==
    /\ Len(history) = 3
    /\ SameInputs(history[1], history[3])
    /\ history[1].result.kind = "snapshot"
    /\ history[1].result.hiddenOrderBlocks # <<>>
    /\ history[1].result = history[3].result
    /\ history[1].args.p.telemetry /\ ~history[3].args.p.telemetry
    /\ history[2].tool = "get_price"
    /\ cache # {}
    /\ Len(telemetryLog) = 2


\* the requests of the call in progress that place or cancel orders
OrderRequests == {k \in 1 .. Len(fetches) : fetches[k].op \in OrderOps}

\* C17: with ALLOW_MAINNET_TRADING 'false' and BINANCE_TESTNET not 'true',
\* no trading tool sends an order request to the exchange.
C17_NoMainnetOrderWhenDisallowed ==
    (env.ALLOW_MAINNET_TRADING = "false" /\ env.BINANCE_TESTNET # "true")
        => OrderRequests = {}

\* what the handlers do instead: ALLOW_MAINNET_TRADING is never read.  A
\* finished trading call sent its one order request exactly when its own
\* validation passed (place_order, cancel_order, cancel_all_orders) or always
\* (place_oco); the client's requests go to the network BINANCE_TESTNET
\* selects and place_oco's to mainnet.
C17_FlagIsNeverConsulted ==
    (pc = "done" /\ tool \in {"place_order", "cancel_order", "cancel_all_orders", "place_oco"})
        => /\ OrderRequests = {} <=> (result.kind = "thrown" /\ result.error # "upstream")
           /\ \A k \in OrderRequests :
                fetches[k].network = IF tool = "place_oco" THEN "mainnet" ELSE getNetworkMode

\* a market order went to mainnet although mainnet trading is switched off
C17_OrderSentOnMainnet ==
    /\ env.ALLOW_MAINNET_TRADING = "false"
    /\ env.BINANCE_TESTNET = "false"
    /\ pc = "done" /\ tool = "place_order"
    /\ result.kind = "order"
    /\ \E k \in OrderRequests : fetches[k].op = "order" /\ fetches[k].network = "mainnet"

\* C18: a cancel_all_futures_orders call without confirmRisk = true never
\* issues the cancel-all request and ends with an error, however many orders
\* are open on the symbol.
C18_CancelAllNeedsConfirmation ==
    (pc = "done" /\ tool = "cancel_all_futures_orders" /\ ~args.confirmRisk)
        => /\ \A k \in 1 .. Len(fetches) : fetches[k].op # "futuresCancelAllOpenOrders"
           /\ result.kind = "thrown"

\* what the handler does: without confirmRisk the cancel-all request is
\* issued exactly when the symbol is valid and futuresOpenOrders answered at
\* most ConfirmAbove orders; with more, the call ends with the error and no
\* cancel-all request.
C18_ConfirmationAboveThreeOnly ==
    (pc = "done" /\ tool = "cancel_all_futures_orders" /\ ~args.confirmRisk)
        => /\ (\E k \in 1 .. Len(fetches) : fetches[k].op = "futuresCancelAllOpenOrders")
                => /\ result.kind \in {"cancelledAll", "thrown"}
                   /\ result.kind = "cancelledAll" => result.cancelledCount <= ConfirmAbove
           /\ (result.kind = "thrown" /\ result.error = "Set confirmRisk: true to proceed")
                => \A k \in 1 .. Len(fetches) : fetches[k].op # "futuresCancelAllOpenOrders"

\* three open orders were cancelled without confirmation
C18_CancelledUnconfirmed ==
    /\ pc = "done" /\ tool = "cancel_all_futures_orders"
    /\ ~args.confirmRisk
    /\ result.kind = "cancelledAll"
    /\ result.cancelledCount = ConfirmAbove


C20_OrderBlockPriority ==
    (SingleFinishedOnCandles /\ result.kind = "snapshot") =>
        LET ob == result.orderBlocks
            p1 == BosBlocks(candles, result.bos)
            p2 == DisplacementBlocks(candles, result.atr)
            p3 == PivotBlocks(candles, Pivots(candles))
        IN  /\ \A t \in {"bull", "bear"} :
                 Cardinality({k \in 1 .. Len(ob) : ob[k].type = t}) <= 1
            /\ \A k \in 1 .. Len(ob) : ob[k].idx \in 0 .. Len(candles) - 1
            /\ p1 # <<>> => ob = p1
            /\ (p1 = <<>> /\ p2 # <<>>) => ob = p2
            /\ (p1 = <<>> /\ p2 = <<>>) => ob = p3

\* the BOS pass and the displacement pass would pick different candles, and
\* the BOS pass decides
C20_Witness ==
    /\ SingleFinishedOnCandles /\ result.kind = "snapshot"
    /\ BosBlocks(candles, result.bos) # <<>>
    /\ DisplacementBlocks(candles, result.atr) # <<>>
    /\ DisplacementBlocks(candles, result.atr) # BosBlocks(candles, result.bos)
    /\ result.orderBlocks = BosBlocks(candles, result.bos)

\* only the pivot pass finds a block
C20_PivotFallback ==
    /\ SingleFinishedOnCandles /\ result.kind = "snapshot"
    /\ BosBlocks(candles, result.bos) = <<>>
    /\ DisplacementBlocks(candles, result.atr) = <<>>
    /\ result.orderBlocks # <<>>

\* only the displacement pass finds a block
C20_DisplacementFallback ==
    /\ SingleFinishedOnCandles /\ result.kind = "snapshot"
    /\ BosBlocks(candles, result.bos) = <<>>
    /\ DisplacementBlocks(candles, result.atr) # <<>>
    /\ result.orderBlocks = DisplacementBlocks(candles, result.atr)


\* the pivot pass decided the order block of a finished request
PivotPassDecides ==
    /\ SingleFinishedOnCandles /\ result.kind = "snapshot"
    /\ BosBlocks(candles, result.bos) = <<>>
    /\ DisplacementBlocks(candles, result.atr) = <<>>
    /\ result.orderBlocks # <<>>

\* the up to ten candles before a pivot
PivotWindow(pv) == Max2(0, pv.idx - 10) .. pv.idx - 1

\* block b of direction t is the candle of the wanted body nearest before pv
NearestBefore(b, pv, t) ==
    LET wanted(k) == IF t = "bull" THEN k.open > k.close ELSE k.open < k.close
    IN  /\ b.type = t
        /\ b.idx \in PivotWindow(pv)
        /\ wanted(At(candles, b.idx))
        /\ \A j \in b.idx + 1 .. pv.idx - 1 : ~wanted(At(candles, j))
        /\ b.open = At(candles, b.idx).open /\ b.close = At(candles, b.idx).close

\* C21 (as the handler has it): a block of the pivot fallback derived from
\* the most recent High pivot has type 'bull' and is the nearest candle with
\* open > close among the ten candles before that pivot; only if there is no
\* such candle (or no High pivot) the block derives from the most recent Low
\* pivot, has type 'bear' and is the nearest candle with open < close among
\* the ten candles before it.
C21_PivotFallbackBlocks ==
    PivotPassDecides =>
        LET b == result.orderBlocks[1]
            lastH == LastPivot(Pivots(candles), "H")
            lastL == LastPivot(Pivots(candles), "L")
            fromH == /\ lastH # <<>>
                     /\ \E i \in PivotWindow(lastH[1]) : At(candles, i).open > At(candles, i).close
        IN  /\ Len(result.orderBlocks) = 1
            /\ IF fromH THEN NearestBefore(b, lastH[1], "bull")
               ELSE lastL # <<>> /\ NearestBefore(b, lastL[1], "bear")

\* C21 as stated: the block of the pivot fallback is the candle at pivot
\* index - 1, a bear block from the High pivot or a bull block from the Low
\* pivot.
C21_AsStated ==
    PivotPassDecides =>
        LET b == result.orderBlocks[1]
            lastH == LastPivot(Pivots(candles), "H")
            lastL == LastPivot(Pivots(candles), "L")
        IN  \/ lastH # <<>> /\ b.type = "bear" /\ b.idx = lastH[1].idx - 1
            \/ lastL # <<>> /\ b.type = "bull" /\ b.idx = lastL[1].idx - 1

\* a bull block from the High pivot, two candles before it
C21_Witness ==
    /\ PivotPassDecides
    /\ LastPivot(Pivots(candles), "H") # <<>>
    /\ result.orderBlocks[1].type = "bull"
    /\ result.orderBlocks[1].idx = LastPivot(Pivots(candles), "H")[1].idx - 2

\* a bear block from the Low pivot, the High pivot having none
C21_FromLowPivot ==
    /\ PivotPassDecides
    /\ LastPivot(Pivots(candles), "L") # <<>>
    /\ result.orderBlocks[1].type = "bear"


\* the candle at index r meets the body of the order block ob
MeetsBody(ob, r) ==
    /\ At(candles, r).high >= (IF ob.open < ob.close THEN ob.open ELSE ob.close)
    /\ At(candles, r).low <= (IF ob.open < ob.close THEN ob.close ELSE ob.open)

\* the revisit candle at r qualifies ob as hidden: no adverse close through
\* the body, and a wick through the body with the close kept on the
\* favourable side of its adverse boundary, or a close inside the body
QualifiesHidden(ob, r) ==
    LET lo == IF ob.open < ob.close THEN ob.open ELSE ob.close
        hi == IF ob.open < ob.close THEN ob.close ELSE ob.open
        k == At(candles, r)
        adverse == IF ob.type = "bull" THEN k.close < lo ELSE k.close > hi
        wick == IF ob.type = "bull" THEN k.low < lo /\ k.close >= lo
                ELSE k.high > hi /\ k.close <= hi
        partial == k.close >= lo /\ k.close <= hi
    IN  ~adverse /\ (wick \/ partial)

\* C22: for every order block at index k the hidden set holds an entry for
\* it exactly when some candle after k meets its body and the first such
\* candle r qualifies it; the entry's revisitIdx is that r, the smallest
\* index above k whose range meets the body, so k < r <= n-1, and its
\* wickThrough and partialClose flags say which of the two tests held.
C22_FirstRevisitDecides ==
    SingleReturned =>
        \A b \in 1 .. Len(struct.orderBlocks) :
            LET ob == struct.orderBlocks[b]
                meets == {r \in ob.idx + 1 .. Len(candles) - 1 : MeetsBody(ob, r)}
                mine == {h \in Range(struct.hiddenOrderBlocks) : h.idx = ob.idx /\ h.type = ob.type}
            IN  /\ mine # {} <=>
                     /\ meets # {}
                     /\ \E r \in meets : (\A q \in meets : r <= q) /\ QualifiesHidden(ob, r)
                /\ \A h \in mine :
                     /\ h.revisitIdx \in meets
                     /\ \A q \in meets : h.revisitIdx <= q
                     /\ ob.idx < h.revisitIdx /\ h.revisitIdx <= Len(candles) - 1
                     /\ h.wickThrough \/ h.partialClose
                     /\ h.partialClose <=>
                          /\ At(candles, h.revisitIdx).close >= bodyLow(ob)
                          /\ At(candles, h.revisitIdx).close <= bodyHigh(ob)

\* a block met by two later candles, hidden on the first of them
C22_Witness ==
    /\ SingleReturned
    /\ Len(struct.orderBlocks) = 1
    /\ Len(struct.hiddenOrderBlocks) = 1
    /\ Cardinality({r \in struct.orderBlocks[1].idx + 1 .. Len(candles) - 1 :
                       MeetsBody(struct.orderBlocks[1], r)}) >= 2
    /\ struct.hiddenOrderBlocks[1].revisitIdx = struct.orderBlocks[1].idx + 1

\* a block that is met but not hidden, its first revisit closing through it
C22_MetNotHidden ==
    /\ SingleReturned
    /\ Len(struct.orderBlocks) = 1
    /\ struct.hiddenOrderBlocks = <<>>
    /\ \E r \in struct.orderBlocks[1].idx + 1 .. Len(candles) - 1 : MeetsBody(struct.orderBlocks[1], r)


\* the interval of the single-symbol request in progress or finished
RequestedInterval == args.p.interval

\* C23: the timeframe weight of the requested interval is at most the weight
\* of every longer accepted interval and at least the weight of every
\* shorter one, with weight 0.5 at 1m and 1.4 at 2w.
C23_WeightMonotone ==
    (tool = "get_market_snapshot" /\ pc # "idle") =>
        /\ \A b \in Intervals :
             /\ intervalMsMap[RequestedInterval] < intervalMsMap[b]
                   => RLe(tfWeightMap[RequestedInterval], tfWeightMap[b])
             /\ intervalMsMap[b] < intervalMsMap[RequestedInterval]
                   => RLe(tfWeightMap[b], tfWeightMap[RequestedInterval])
        /\ tfWeightMap["1m"] = Frac(1, 2)
        /\ tfWeightMap["2w"] = Frac(7, 5)

\* the intervals tfWeightMap has a key for
WeightedIntervals == {"1m", "5m", "15m", "30m", "1h", "4h", "1d", "2d", "4d", "1w", "2w"}

\* what the table gives: over the eleven intervals it lists the weight does
\* not decrease with the duration, from 0.5 at 1m to 1.4 at 2w; a request on
\* 3m, 2h, 6h, 8h or 12h is weighted 1.0.
C23_ListedWeightsMonotone ==
    (tool = "get_market_snapshot" /\ pc # "idle") =>
        IF RequestedInterval \in WeightedIntervals
        THEN \A b \in WeightedIntervals :
                intervalMsMap[RequestedInterval] < intervalMsMap[b]
                   => RLe(tfWeightMap[RequestedInterval], tfWeightMap[b])
        ELSE tfWeightMap[RequestedInterval] = R(1)

\* a request on 3m, weighted above the longer 5m
C23_ThreeMinutesOutweighsFive ==
    /\ tool = "get_market_snapshot" /\ pc = "done"
    /\ RequestedInterval = "3m"
    /\ RGt(tfWeightMap["3m"], tfWeightMap["5m"])


\* length of the part of the range [lo, hi] that lies at or below level
PartBelow(lo, hi, level) == IF lo >= level THEN 0 ELSE (IF hi < level THEN hi ELSE level) - lo

\* length of the part of the range [lo, hi] that lies at or above level
PartAbove(lo, hi, level) == IF hi <= level THEN 0 ELSE hi - (IF lo > level THEN lo ELSE level)

\* w is the fraction part / (hi - lo), 0 for a candle without range
IsFractionOfRange(w, part, lo, hi) ==
    /\ RGe(w, R(0)) /\ RLe(w, R(1))
    /\ IF hi = lo THEN w = R(0) ELSE RMul(w, R(hi - lo)) = R(part)

\* C24 (as the handler has it): wickRatio of a HOB is the fraction, in
\* [0,1], of the revisit candle's range that lies beyond the adverse
\* boundary of the order-block body: below the body for a bull block, above
\* the body for a bear block.
C24_WickBeyondAdverseBoundary ==
    SingleReturned =>
        \A i \in 1 .. Len(hobs) :
            LET h == hobs[i]
                rv == At(candles, h.revisitIdx)
                lo == IF h.zone.open < h.zone.close THEN h.zone.open ELSE h.zone.close
                hi == IF h.zone.open < h.zone.close THEN h.zone.close ELSE h.zone.open
            IN  IsFractionOfRange(h.components.wickRatio,
                                  IF h.type = "bull" THEN PartBelow(rv.low, rv.high, lo)
                                  ELSE PartAbove(rv.low, rv.high, hi),
                                  rv.low, rv.high)

\* C24 as stated: wickRatio is the fraction of the revisit candle's range on
\* the favourable side of the body, above it for a bull block and below it
\* for a bear block.
C24_AsStated ==
    SingleReturned =>
        \A i \in 1 .. Len(hobs) :
            LET h == hobs[i]
                rv == At(candles, h.revisitIdx)
                lo == IF h.zone.open < h.zone.close THEN h.zone.open ELSE h.zone.close
                hi == IF h.zone.open < h.zone.close THEN h.zone.close ELSE h.zone.open
            IN  IsFractionOfRange(h.components.wickRatio,
                                  IF h.type = "bull" THEN PartAbove(rv.low, rv.high, hi)
                                  ELSE PartBelow(rv.low, rv.high, lo),
                                  rv.low, rv.high)

\* a bull block whose revisit candle reaches below the body and not above it
C24_Witness ==
    /\ SingleReturned
    /\ \E i \in 1 .. Len(hobs) :
         /\ hobs[i].type = "bull"
         /\ RGt(hobs[i].components.wickRatio, R(0))
         /\ RLt(hobs[i].components.wickRatio, R(1))
         /\ At(candles, hobs[i].revisitIdx).high
              <= (IF hobs[i].zone.open < hobs[i].zone.close THEN hobs[i].zone.close
                  ELSE hobs[i].zone.open)

\* a bear block with a revisit wick above its body
C24_BearWick ==
    /\ SingleReturned
    /\ \E i \in 1 .. Len(hobs) :
         hobs[i].type = "bear" /\ RGt(hobs[i].components.wickRatio, R(0))


\* the lower-timeframe fetches a finished snapshot of the request needs: one
\* per hidden order block, none on an interval without a lower timeframe
LtfFetchesDue ==
    IF args.p.interval \notin Intervals \/ ltfMap[args.p.interval] = "none" THEN 0 ELSE Len(hobs)

\* C25 (as the handler has it): a single-symbol request issues the primary
\* fetch first and once; lower-timeframe fetches follow only a non-empty
\* primary answer, one per hidden order block on an interval that has a
\* lower timeframe and none at all on 1m and 3m; each fetch is issued after
\* the one before it has settled, and nothing is fetched again after a
\* failure.
C25_FetchDiscipline ==
    tool = "get_market_snapshot" =>
        /\ Len(responses) <= 1
        /\ fetches # <<>> =>
             fetches[1] = Fetch(args.symbols[1], normalizeInterval(args.p.interval), args.p.limit)
        /\ \A k \in 2 .. Len(fetches) :
             /\ LtfFetchesDue > 0
             /\ fetches[k] = Fetch(args.symbols[1], ltfMap[args.p.interval], LtfLimit)
        /\ Len(fetches) >= 2 =>
             /\ Len(responses) = 1
             /\ responses[1].kind = "ok" /\ responses[1].klines # <<>>
        /\ Len(fetches) <= 1 + LtfFetchesDue
        /\ Len(fetches) = Len(responses) + Len(ltfSeen)
                          + (IF pc \in {"awaitPrimary", "awaitLtf"} THEN 1 ELSE 0)
        /\ (pc = "done" /\ result.kind = "snapshot") =>
             Len(fetches) = 1 + LtfFetchesDue /\ Len(ltfSeen) = LtfFetchesDue
        /\ (pc = "done" /\ result.kind # "snapshot") => Len(fetches) <= 1

\* C25 as stated: a finished snapshot has seen one lower-timeframe fetch per
\* hidden order block, whatever the interval.
C25_AsStated ==
    (tool = "get_market_snapshot" /\ pc = "done" /\ result.kind = "snapshot") =>
        /\ Len(responses) = 1
        /\ Len(fetches) = 1 + Len(hobs)

\* a snapshot returned after the one lower-timeframe fetch failed, with no
\* further fetch
C25_Witness ==
    /\ SingleReturned
    /\ Len(hobs) = 1
    /\ Len(fetches) = 2
    /\ fetches[2].interval = ltfMap[args.p.interval]
    /\ Len(ltfSeen) = 1 /\ ltfSeen[1].kind = "fail"

\* a hidden order block on the one-minute interval, returned without any
\* lower-timeframe fetch
C25_NoLowerTimeframe ==
    /\ SingleReturned
    /\ args.p.interval = "1m"
    /\ Len(hobs) = 1
    /\ Len(fetches) = 1


WokenInOrder ==
    /\ Len(limiter.woken) <= Len(limiter.enqueued)
    /\ \A i \in 1 .. Len(limiter.woken) : limiter.woken[i] = limiter.enqueued[i]

\* a request acquires at most once, releases only what it acquired, and has
\* released once its handler has returned or thrown
AcquireMatchesRelease ==
    \A r \in Arrived :
        /\ limiter.req[r].released <= limiter.req[r].acquired
        /\ limiter.req[r].acquired <= 1
        /\ limiter.req[r].state \in {"returned", "threw"}
             => limiter.req[r].acquired = 1 /\ limiter.req[r].released = 1
        /\ limiter.req[r].state = "unknown tool"
             => limiter.req[r].acquired = 0 /\ limiter.req[r].released = 0

\* C27: when every running handler finishes, every queued request comes to
\* hold a slot and run, waiters are woken first in first out, and every
\* acquire is matched by exactly one release, also when the handler throws.
C27_QueuedEventuallyRuns ==
    /\ [](WokenInOrder /\ AcquireMatchesRelease)
    /\ \A r \in 1 .. MaxRequests :
         /\ (r \in Arrived /\ limiter.req[r].state = "queued")
              ~> (r \in Arrived /\ limiter.req[r].acquired = 1)
         /\ (r \in Arrived /\ limiter.req[r].acquired = 1)
              ~> (r \in Arrived /\ limiter.req[r].released = 1)

\* the same, for a limiter that has a slot to give
C27_QueuedRunsGivenASlot ==
    /\ [](WokenInOrder /\ AcquireMatchesRelease)
    /\ \A r \in 1 .. MaxRequests :
         /\ (r \in Arrived /\ limiter.req[r].state = "queued" /\ limiter.max >= 1)
              ~> (r \in Arrived /\ limiter.req[r].acquired = 1)
         /\ (r \in Arrived /\ limiter.req[r].acquired = 1)
              ~> (r \in Arrived /\ limiter.req[r].released = 1)

\* MCP_CONCURRENCY=0: every request waits and none is running to wake it
C27_AllWaitNoneRuns ==
    /\ limiter.max = 0
    /\ Len(limiter.queue) = MaxRequests
    /\ limiter.current = 0

\* two requests that waited, both woken in their order, the second after a
\* handler that threw
C27_WokenInTurn ==
    /\ Len(limiter.woken) >= 2
    /\ \E r \in Arrived : limiter.req[r].state = "threw"
    /\ \E r \in Arrived : r \in Range(limiter.woken) /\ limiter.req[r].released = 1


\* the orders of the bracket that the exchange accepted
BracketPlaced ==
    {k \in 1 .. Len(fetches) : fetches[k].op = "futuresOrder" /\ responses[k].kind = "placed"}

\* C29: when place_futures_bracket_order ends, with a result or an error,
\* either the entry, the stop-loss and the take-profit are all placed or
\* none of them is.
C29_AllOrNothing ==
    (pc = "done" /\ tool = "place_futures_bracket_order")
        => Cardinality(BracketPlaced) \in {0, 3}

\* what the handler keeps: it succeeds exactly when all three are placed,
\* nothing is placed without confirmRisk, and what is placed is a prefix of
\* entry, stop-loss, take-profit
C29_PlacedInOrder ==
    (pc = "done" /\ tool = "place_futures_bracket_order")
        => /\ result.kind = "bracket" <=> Cardinality(BracketPlaced) = 3
           /\ ~args.confirmRisk => BracketPlaced = {}
           /\ \A k \in BracketPlaced :
                fetches[k].params.type \in {"STOP_MARKET", "TAKE_PROFIT_MARKET"}
                    => k - 1 \in BracketPlaced

\* the entry is placed, the stop-loss is refused, and the handler throws
C29_EntryLeftAlone ==
    /\ pc = "done"
    /\ tool = "place_futures_bracket_order"
    /\ result.kind = "thrown"
    /\ Cardinality(BracketPlaced) = 1
    /\ \E k \in BracketPlaced : fetches[k].params.type \in {"MARKET", "LIMIT"}


\* the intervals whose timeframe weight is below the very-strong floor
BelowVeryStrongWeight == {iv \in Intervals : RLt(tfWeightMap[iv], Frac(13, 10))}

\* C30: on an interval whose timeframe weight is below 1.3, which is every
\* accepted interval but 4d, 1w and 2w, no hidden order block is marked
\* very-strong, and a request with onlyVeryStrong returns no hidden order
\* block.
C30_NoVeryStrongBelowWeight ==
    /\ BelowVeryStrongWeight = Intervals \ {"4d", "1w", "2w"}
    /\ (tool = "get_market_snapshot" /\ args.p.interval \in BelowVeryStrongWeight)
         => /\ \A k \in 1 .. Len(hobs) :
                 Has(hobs[k], "isVeryStrong") => ~hobs[k].isVeryStrong
            /\ (SingleReturned /\ args.p.onlyVeryStrong)
                 => result.hiddenOrderBlocks = <<>>

\* a 1h request with onlyVeryStrong returns nothing although a hidden order
\* block meets every very-strong condition but the weight
C30_Witness ==
    /\ SingleReturned
    /\ args.p.interval = "1h"
    /\ args.p.onlyVeryStrong
    /\ result.hiddenOrderBlocks = <<>>
    /\ \E k \in 1 .. Len(hobs) :
         /\ ~hobs[k].isVeryStrong
         /\ ~hobs[k].invalidated
         /\ RGe(QualityScore(hobs[k].components), args.p.veryStrongMinQuality)
         /\ confCount(hobs[k].ltfConfirmations) >= 2
         /\ confConfluence(hobs[k].components) >= 2
         /\ filterHob(hobs[k], [args.p EXCEPT !.onlyVeryStrong = FALSE])

\* on 1w the same request returns a very-strong block
C30_VeryStrongOnWeekly ==
    /\ SingleReturned
    /\ args.p.interval = "1w"
    /\ args.p.onlyVeryStrong
    /\ result.hiddenOrderBlocks # <<>>


CachedTools == {"get_price", "get_klines"}

\* the same parameters, in whatever order the keys were written
SameParams(p, q) == {p[i] : i \in DOMAIN p} = {q[i] : i \in DOMAIN q}

\* the calls so far that the exchange answered, so that their result was stored
StoredBy(name, params) ==
    {i \in 1 .. Len(history) :
        /\ history[i].tool = name
        /\ SameParams(history[i].args.p, params)
        /\ history[i].responses # <<>>
        /\ history[i].responses[1].kind = "ok"}

\* what is served from the cache, and what the cache holds
CacheSound ==
    /\ (pc = "done" /\ tool \in CachedTools /\ responses = <<>> /\ result.kind # "thrown")
         => /\ \E i \in StoredBy(tool, args.p) : i < Len(history) /\ history[i].result = result
            /\ now - result.timestamp < BINANCE_CACHE_TTL_MS
    /\ \A e \in cache :
         \E i \in 1 .. Len(history) :
            /\ i \in StoredBy(history[i].tool, history[i].args.p)
            /\ cacheKey(history[i].tool, history[i].args.p) = e.key
            /\ history[i].result = e.data
            /\ e.ts = e.data.timestamp
            /\ \A j \in i + 1 .. Len(history) :
                 (j \in StoredBy(history[j].tool, history[j].args.p)
                    /\ cacheKey(history[j].tool, history[j].args.p) = e.key)
                     => history[j].result = e.data

\* C28: a response served from the cache was stored by an exchange call of
\* the same tool and the same parameters, in whatever key order, that
\* succeeded less than BINANCE_CACHE_TTL earlier, so an entry of age TTL or
\* more is not served; a call that the exchange fails, like one served from
\* the cache, creates and replaces no entry.
C28_CacheServesFreshStores ==
    /\ []CacheSound
    /\ [][(pc' = "done" /\ tool' \in CachedTools
             /\ (responses' = <<>> \/ responses'[1].kind = "fail"))
            => cache' = cache]_vars

\* a price stored under one key order is served a tick later to a call that
\* wrote the keys in the other order, after a failed call in between
C28_Witness ==
    /\ Len(history) = 3
    /\ pc = "done" /\ tool = "get_price"
    /\ responses = <<>> /\ result.kind = "price"
    /\ history[1].result = result
    /\ history[1].args.p # args.p
    /\ now = result.timestamp + 1
    /\ history[2].result.kind = "thrown" /\ history[2].responses # <<>>

\* an entry of age TTL is passed over and the exchange is asked again
C28_ExpiredRefetched ==
    /\ pc = "done" /\ tool = "get_price"
    /\ responses # <<>> /\ result.kind = "price"
    /\ \E i \in StoredBy(tool, args.p) :
         i < Len(history) /\ now - history[i].result.timestamp = BINANCE_CACHE_TTL_MS

=============================================================================
